---- MODULE Spec2Model ----
(***************************************************************************)
(* A model of polyg00n/textifier: the model-loading fallback ladder of     *)
(* Transcriber.load_model and the subtitle codec of FormatHandler          *)
(* (textifier_core.py), with VTTProcessor.parse (vtt_processor.py).        *)
(***************************************************************************)
EXTENDS Integers, Sequences, FiniteSets, TLC

VARIABLES
    \* ---- Transcriber (textifier_core.py 139-248) ----
    whisper_model,        \* self.whisper_model: the held handle, or NoModel
    whisper_model_name,   \* self.whisper_model_name, "none" for None
    last_device,          \* self._last_device, "none" while the attribute is unset
    last_compute_type,    \* self._last_compute_type, "none" while unset
    status_callback,      \* whether a status callback was given at construction
    \* ---- the running load_model call ----
    pc,                   \* position of the call; "idle" between calls
    arg_model,            \* parameter model_name
    arg_device,           \* parameter device, as passed
    arg_compute_type,     \* parameter compute_type
    device,               \* local variable device (reassigned on lines 188, 216)
    resolved,             \* value of device after device detection (line 188)
    cuda_types,           \* local list cuda_types, after the reordering
    idx,                  \* position of the running for loop in its list
    trace,                \* events of the call: _update_status calls and constructions
    outcome,              \* how the last call ended
    \* ---- FormatHandler / VTTProcessor calls ----
    op,                   \* what was done last: "data", "given", "saved" or the parser run
    ext,                  \* the format (suffix) of the file
    windows,              \* whether os.linesep is '\r\n'
    data,                 \* the cue list handed to a *_from_data serializer
    file,                 \* the content of the file on disk
    cues,                 \* the list a parser returned
    logged,               \* number of logging.error calls of the last parse
    \* ---- a job of TextifierCore or Textifier (textifier_core.py 517-620) ----
    jpc,                  \* position of the running job; "idle" before, "done" after
    job,                  \* the call: its kind and arguments, and what the environment holds
    events,               \* model work (downloads, loads, inference, translation) so far
    written,              \* paths of the files written, in order
    result,               \* what the call returned or raised
    stop_requested,       \* Transcriber.stop_requested
    emitted,              \* segments the inference generator has yielded
    appended,             \* len(result_segments)
    stop_at,              \* len(result_segments) when the flag was set, -1 if it never was
    \* ---- TextifierApp (gui_main.py) ----
    workers,              \* the worker threads started, each with its position
    msg_queue,            \* self.msg_queue: the status messages enqueued
    \* ---- VTTProcessor.get_tutorial_format / get_html_format ----
    full_text,            \* self.full_text
    chunk_size,           \* parameter chunk_size
    output,               \* the lines of the generated document
    \* ---- a session of TextifierApp with its TextifierCore ----
    core_model_name,      \* TextifierCore.whisper_model_name
    gui_device,           \* core._last_device as start_advanced_transcribe records it
    gui_compute_type,     \* core._last_compute_type as start_advanced_transcribe records it
    threads,              \* the transcription workers started, each with its position
    builds,               \* number of WhisperModel constructions that succeeded
    resets,               \* number of times the GUI set core.whisper_model = None
    switches,             \* number of times the GUI changed whisper_model_name
    overlapped,           \* whether a worker was started while another was running
    \* ---- the status queue and the activity log (gui_main.py 123-142) ----
    enqueued,             \* every message put with queue_status, in order
    log,                  \* the lines of txt_log
    timers,               \* pending self.after(100, self.process_queue) callbacks
    pq_pc,                \* where process_queue is: "idle" or "draining"
    \* ---- the subtitle editor (gui_main.py 581-648) ----
    disk,                 \* the VTT files of the folder: name and content version
    editor_file,          \* self.editor_current_file
    saves,                \* the paths editor_save_file wrote, in order
    \* ---- translate_file at the level of file contents ----
    out_file              \* the content of the output file, or the marker of none

loadVars == <<whisper_model, whisper_model_name, last_device, last_compute_type,
              status_callback, pc, arg_model, arg_device, arg_compute_type,
              device, resolved, cuda_types, idx, trace, outcome>>
codecVars == <<op, ext, windows, data, file, cues, logged>>
jobVars == <<jpc, job, events, written, result, stop_requested, emitted, appended, stop_at>>
guiVars == <<workers, msg_queue>>
procVars == <<full_text, chunk_size, output>>
sessVars == <<core_model_name, gui_device, gui_compute_type, threads, builds, resets,
              switches, overlapped>>
logVars == <<enqueued, log, timers, pq_pc>>
editorVars == <<disk, editor_file, saves>>
outVars == <<out_file>>
moreVars == <<sessVars, logVars, editorVars, outVars>>
appVars == <<jobVars, guiVars, procVars, moreVars>>
vars == <<loadVars, codecVars, appVars>>

(***************************************************************************)
(* Transcriber.load_model                                                  *)
(***************************************************************************)
Models == {"tiny", "base"}
Devices == {"auto", "cuda", "cpu"}
ComputeTypeArgs == {"default", "float16", "int8_float16", "int8", "float32", "int16"}

CUDA_TYPES == <<"float16", "int8_float16", "int8", "float32">>
CPU_TYPES == <<"int8", "float32">>

NoModel == [model |-> "none", device |-> "none", ctype |-> "none"]

\* WhisperModel(model_path, device=d, compute_type=c): the handle a successful
\* construction returns.
WhisperModel(m, d, c) == [model |-> m, device |-> d, ctype |-> c]

Range(s) == {s[i] : i \in 1..Len(s)}

\* cuda_types.remove(compute_type); cuda_types.insert(0, compute_type)
MoveToFront(list, c) == <<c>> \o SelectSeq(list, LAMBDA x : x # c)

\* The list the CUDA loop iterates over.
CudaOrder(c) ==
    IF c # "default" /\ c \in Range(CUDA_TYPES) THEN MoveToFront(CUDA_TYPES, c)
    ELSE CUDA_TYPES

StatusMsg(kind, m, d, c) == [kind |-> kind, model |-> m, device |-> d, ctype |-> c, ok |-> TRUE]
AttemptEv(m, d, c, ok) == [kind |-> "attempt", model |-> m, device |-> d, ctype |-> c, ok |-> ok]

\* Transcriber._update_status: the message is handed to the callback when one
\* is installed.  trace records the call; Delivered is what the callback saw.
UpdateStatus(tr, msg) == Append(tr, msg)

IsStatus(e) == e.kind # "attempt"
Status == SelectSeq(trace, IsStatus)
Delivered == IF status_callback THEN Status ELSE <<>>
Attempts == SelectSeq(trace, LAMBDA e : e.kind = "attempt")

\* Lines 176-178: the already-loaded early return.
EarlyReturn(m, d) ==
    /\ whisper_model # NoModel
    /\ whisper_model_name = m
    /\ d # "auto"
    /\ last_device = d

\* load_model(model_name, device, compute_type), lines 175-201: the early
\* return, the download of a missing model (which may raise), device
\* detection and the ordering of the CUDA list.
CallLoadModel ==
    /\ pc = "idle"
    /\ \E m \in Models, d \in Devices, c \in ComputeTypeArgs :
         /\ arg_model' = m
         /\ arg_device' = d
         /\ arg_compute_type' = c
         /\ trace' = <<>>
         /\ idx' = 1
         /\ cuda_types' = CudaOrder(c)
         /\ IF EarlyReturn(m, d)
            THEN /\ outcome' = "early_return"
                 /\ pc' = "idle"
                 /\ device' = d
                 /\ resolved' = d
            ELSE \E available \in BOOLEAN, downloads \in BOOLEAN, cuda_available \in BOOLEAN :
                 LET dev == IF d = "auto"
                            THEN (IF cuda_available THEN "cuda" ELSE "cpu")
                            ELSE d
                 IN  /\ device' = dev
                     /\ resolved' = dev
                     /\ IF ~available /\ ~downloads
                        THEN /\ outcome' = "download_error"
                             /\ pc' = "idle"
                        ELSE /\ outcome' = "running"
                             /\ pc' = IF dev = "cuda" THEN "cuda_try" ELSE "cpu_check"
    /\ UNCHANGED <<whisper_model, whisper_model_name, last_device, last_compute_type,
                   status_callback, codecVars, appVars>>

\* Line 205: the status message of the next CUDA attempt.
CudaTry ==
    /\ pc = "cuda_try"
    /\ trace' = UpdateStatus(trace, StatusMsg("trying", arg_model, "cuda", cuda_types[idx]))
    /\ pc' = "cuda_construct"
    /\ UNCHANGED <<whisper_model, whisper_model_name, last_device, last_compute_type,
                   status_callback, arg_model, arg_device, arg_compute_type, device,
                   resolved, cuda_types, idx, outcome, codecVars, appVars>>

\* CudaConstruct without the break of line 209: the loop goes on after a success.
CudaConstruct_NoBreak ==
    /\ pc = "cuda_construct"
    /\ \E ok \in BOOLEAN :
         /\ trace' = Append(trace, AttemptEv(arg_model, "cuda", cuda_types[idx], ok))
         /\ IF ok
            THEN /\ whisper_model' = WhisperModel(arg_model, "cuda", cuda_types[idx])
                 /\ last_compute_type' = cuda_types[idx]
                 /\ last_device' = "cuda"
                 /\ IF idx < Len(cuda_types)
                    THEN idx' = idx + 1 /\ pc' = "cuda_try"
                    ELSE idx' = idx /\ pc' = "cpu_check"
            ELSE /\ pc' = "cuda_except"
                 /\ idx' = idx
                 /\ UNCHANGED <<whisper_model, last_compute_type, last_device>>
    /\ UNCHANGED <<whisper_model_name, status_callback, arg_model, arg_device,
                   arg_compute_type, device, resolved, cuda_types, outcome, codecVars, appVars>>

\* Lines 206-209: the construction; on success the handle and the pair are
\* recorded and the loop is left.
CudaConstruct ==
    /\ pc = "cuda_construct"
    /\ \E ok \in BOOLEAN :
         /\ trace' = Append(trace, AttemptEv(arg_model, "cuda", cuda_types[idx], ok))
         /\ IF ok
            THEN /\ whisper_model' = WhisperModel(arg_model, "cuda", cuda_types[idx])
                 /\ last_compute_type' = cuda_types[idx]
                 /\ last_device' = "cuda"
                 /\ pc' = "cpu_check"
            ELSE /\ pc' = "cuda_except"
                 /\ UNCHANGED <<whisper_model, last_compute_type, last_device>>
    /\ UNCHANGED <<whisper_model_name, status_callback, arg_model, arg_device,
                   arg_compute_type, device, resolved, cuda_types, idx, outcome, codecVars, appVars>>

\* CudaExcept without the status message of line 211.
CudaExcept_Silent ==
    /\ pc = "cuda_except"
    /\ IF idx < Len(cuda_types)
       THEN idx' = idx + 1 /\ pc' = "cuda_try"
       ELSE idx' = idx /\ pc' = "cpu_check"
    /\ UNCHANGED <<whisper_model, whisper_model_name, last_device, last_compute_type,
                   status_callback, arg_model, arg_device, arg_compute_type, device,
                   resolved, cuda_types, trace, outcome, codecVars, appVars>>

\* Lines 210-212: the except branch; the loop goes on with the next type.
CudaExcept ==
    /\ pc = "cuda_except"
    /\ trace' = UpdateStatus(trace, StatusMsg("failed", arg_model, "cuda", cuda_types[idx]))
    /\ IF idx < Len(cuda_types)
       THEN idx' = idx + 1 /\ pc' = "cuda_try"
       ELSE idx' = idx /\ pc' = "cpu_check"
    /\ UNCHANGED <<whisper_model, whisper_model_name, last_device, last_compute_type,
                   status_callback, arg_model, arg_device, arg_compute_type, device,
                   resolved, cuda_types, outcome, codecVars, appVars>>

\* CpuCheck without the fallback: the CPU list is tried only when CUDA was
\* never selected.
CpuCheck_NoFallback ==
    /\ pc = "cpu_check"
    /\ IF whisper_model = NoModel /\ resolved # "cuda"
       THEN device' = "cpu" /\ idx' = 1 /\ pc' = "cpu_try"
       ELSE device' = device /\ idx' = idx /\ pc' = "final"
    /\ UNCHANGED <<whisper_model, whisper_model_name, last_device, last_compute_type,
                   status_callback, arg_model, arg_device, arg_compute_type,
                   resolved, cuda_types, trace, outcome, codecVars, appVars>>

\* Lines 215-216: the CPU list is entered only while no handle is held.
CpuCheck ==
    /\ pc = "cpu_check"
    /\ IF whisper_model = NoModel
       THEN device' = "cpu" /\ idx' = 1 /\ pc' = "cpu_try"
       ELSE device' = device /\ idx' = idx /\ pc' = "final"
    /\ UNCHANGED <<whisper_model, whisper_model_name, last_device, last_compute_type,
                   status_callback, arg_model, arg_device, arg_compute_type,
                   resolved, cuda_types, trace, outcome, codecVars, appVars>>

\* Line 219.
CpuTry ==
    /\ pc = "cpu_try"
    /\ trace' = UpdateStatus(trace, StatusMsg("trying", arg_model, "cpu", CPU_TYPES[idx]))
    /\ pc' = "cpu_construct"
    /\ UNCHANGED <<whisper_model, whisper_model_name, last_device, last_compute_type,
                   status_callback, arg_model, arg_device, arg_compute_type, device,
                   resolved, cuda_types, idx, outcome, codecVars, appVars>>

\* Lines 220-223.
CpuConstruct ==
    /\ pc = "cpu_construct"
    /\ \E ok \in BOOLEAN :
         /\ trace' = Append(trace, AttemptEv(arg_model, "cpu", CPU_TYPES[idx], ok))
         /\ IF ok
            THEN /\ whisper_model' = WhisperModel(arg_model, "cpu", CPU_TYPES[idx])
                 /\ last_compute_type' = CPU_TYPES[idx]
                 /\ last_device' = "cpu"
                 /\ pc' = "final"
            ELSE /\ pc' = "cpu_except"
                 /\ UNCHANGED <<whisper_model, last_compute_type, last_device>>
    /\ UNCHANGED <<whisper_model_name, status_callback, arg_model, arg_device,
                   arg_compute_type, device, resolved, cuda_types, idx, outcome, codecVars, appVars>>

\* Lines 224-226.
CpuExcept ==
    /\ pc = "cpu_except"
    /\ trace' = UpdateStatus(trace, StatusMsg("failed", arg_model, "cpu", CPU_TYPES[idx]))
    /\ IF idx < Len(CPU_TYPES)
       THEN idx' = idx + 1 /\ pc' = "cpu_try"
       ELSE idx' = idx /\ pc' = "final"
    /\ UNCHANGED <<whisper_model, whisper_model_name, last_device, last_compute_type,
                   status_callback, arg_model, arg_device, arg_compute_type, device,
                   resolved, cuda_types, outcome, codecVars, appVars>>

\* Lines 228-232: raise when no handle is held, else record the name and
\* report READY with the recorded pair.
Final ==
    /\ pc = "final"
    /\ pc' = "idle"
    /\ IF whisper_model = NoModel
       THEN /\ outcome' = "load_error"
            /\ UNCHANGED <<whisper_model_name, trace>>
       ELSE /\ outcome' = "ready"
            /\ whisper_model_name' = arg_model
            /\ trace' = UpdateStatus(trace,
                         StatusMsg("ready", arg_model, last_device, last_compute_type))
    /\ UNCHANGED <<whisper_model, last_device, last_compute_type, status_callback,
                   arg_model, arg_device, arg_compute_type, device, resolved,
                   cuda_types, idx, codecVars, appVars>>

\* TextifierCore.whisper_model setter (lines 505-507) with None, as the GUI
\* does to force a reload.
ResetHandle ==
    /\ pc = "idle"
    /\ whisper_model # NoModel
    /\ whisper_model' = NoModel
    /\ UNCHANGED <<whisper_model_name, last_device, last_compute_type, status_callback,
                   pc, arg_model, arg_device, arg_compute_type, device, resolved,
                   cuda_types, idx, trace, outcome, codecVars, appVars>>

\* Transcriber.__init__, lines 141-146.
InitLoad ==
    /\ whisper_model = NoModel
    /\ whisper_model_name = "none"
    /\ last_device = "none"
    /\ last_compute_type = "none"
    /\ status_callback \in BOOLEAN
    /\ pc = "idle"
    /\ arg_model = "none"
    /\ arg_device = "none"
    /\ arg_compute_type = "none"
    /\ device = "none"
    /\ resolved = "none"
    /\ cuda_types = CUDA_TYPES
    /\ idx = 1
    /\ trace = <<>>
    /\ outcome = "none"

InitCodecIdle ==
    /\ op = "none"
    /\ ext = "none"
    /\ windows = FALSE
    /\ data = <<>>
    /\ file = <<>>
    /\ cues = <<>>
    /\ logged = 0

\* No job was started, no worker thread exists, no document was generated.
NoJob == [kind |-> "none"]

InitJobIdle ==
    /\ jpc = "idle"
    /\ job = NoJob
    /\ events = <<>>
    /\ written = <<>>
    /\ result = [kind |-> "pending", value |-> <<>>]
    /\ stop_requested = FALSE
    /\ emitted = 0
    /\ appended = 0
    /\ stop_at = -1

InitGuiIdle ==
    /\ workers = <<>>
    /\ msg_queue = <<>>

InitProcIdle ==
    /\ full_text = <<>>
    /\ chunk_size = 1
    /\ output = <<>>

\* The application was constructed: TextifierCore(status_callback=queue_status)
\* with its default model name, nothing recorded by the Advanced tab, no
\* worker, the two process_queue callbacks of __init__ pending.
InitSessIdle ==
    /\ core_model_name = "large"
    /\ gui_device = "none"
    /\ gui_compute_type = "none"
    /\ threads = <<>>
    /\ builds = 0
    /\ resets = 0
    /\ switches = 0
    /\ overlapped = FALSE

InitLogIdle ==
    /\ enqueued = <<>>
    /\ log = <<>>
    /\ timers = 2
    /\ pq_pc = "idle"

InitEditorIdle ==
    /\ disk = {}
    /\ editor_file = <<>>
    /\ saves = <<>>

NoFile == <<"no file">>

InitOutIdle == out_file = NoFile

InitMoreIdle == InitSessIdle /\ InitLogIdle /\ InitEditorIdle /\ InitOutIdle

InitAppIdle == InitJobIdle /\ InitGuiIdle /\ InitProcIdle /\ InitMoreIdle

InitL == InitLoad /\ InitCodecIdle /\ InitAppIdle

NextLoad ==
    \/ CallLoadModel
    \/ CudaTry
    \/ CudaConstruct
    \/ CudaExcept
    \/ CpuCheck
    \/ CpuTry
    \/ CpuConstruct
    \/ CpuExcept
    \/ Final
    \/ ResetHandle

SpecLoad == InitL /\ [][NextLoad]_vars

(***************************************************************************)
(* Text: a str is a sequence of characters.  Runs of characters that the   *)
(* code never looks inside (a word, "-->", the digit groups of a timestamp)*)
(* are one element.                                                        *)
(***************************************************************************)
LF == "\n"
CR == "\r"
SP == " "
ARROW == "-->"
COMMA == ","
QUOTE == "\""
DOT == "."
WEBVTT == "WEBVTT"
BADBYTE == "\\xff"          \* a byte that is not valid UTF-8
Whitespace == {SP, LF, CR, "\t"}
HMS == <<"00:00:01", "00:00:02", "00:00:03", "00:00:04", "00:00:05", "00:00:06">>
Millis == {"000", "500"}
Digits == {"1", "2", "3", "4"} \cup Millis

\* A timestamp in VTT notation (HH:MM:SS.mmm) and in SRT notation (HH:MM:SS,mmm).
VttTime(n) == <<HMS[n], DOT, "000">>
SrtTime(n) == <<HMS[n], COMMA, "000">>

Min(S) == CHOOSE i \in S : \A j \in S : i <= j
Max(S) == CHOOSE i \in S : \A j \in S : i >= j

\* The least i >= from at which sub occurs in s, 0 when there is none.
FindFrom(s, sub, from) ==
    LET hits == {i \in from..(Len(s) - Len(sub) + 1) : SubSeq(s, i, i + Len(sub) - 1) = sub}
    IN  IF hits = {} THEN 0 ELSE Min(hits)

\* `sub in s`
Contains(s, sub) == FindFrom(s, sub, 1) # 0

RECURSIVE Split(_, _)
\* s.split(sep)
Split(s, sep) ==
    LET i == FindFrom(s, sep, 1)
    IN  IF i = 0 THEN <<s>>
        ELSE <<SubSeq(s, 1, i - 1)>> \o Split(SubSeq(s, i + Len(sep), Len(s)), sep)

\* s.strip(): s without its leading and trailing whitespace.
Strip(s) ==
    LET keep == {i \in 1..Len(s) : s[i] \notin Whitespace}
    IN  IF keep = {} THEN <<>> ELSE SubSeq(s, Min(keep), Max(keep))

RECURSIVE ConcatRange(_, _, _)
ConcatRange(parts, lo, hi) ==
    IF lo > hi THEN <<>>
    ELSE IF lo = hi THEN parts[lo]
    ELSE LET mid == (lo + hi) \div 2
         IN  ConcatRange(parts, lo, mid) \o ConcatRange(parts, mid + 1, hi)

\* The concatenation of a sequence of strings.
Concat(parts) == ConcatRange(parts, 1, Len(parts))

\* sep.join(parts)
Join(parts, sep) ==
    Concat([i \in 1..Len(parts) |-> IF i = 1 THEN parts[i] ELSE sep \o parts[i]])

\* str(i + 1) of the cue counter.
Str(i) == <<(<<"1">>), (<<"2">>), (<<"3">>), (<<"4">>)>>[i]

\* f.write on a file opened in text mode with the default newline: each
\* '\n' is written as os.linesep.
WriteText(s, win) ==
    Concat([i \in 1..Len(s) |-> IF s[i] = LF /\ win THEN <<CR, LF>> ELSE <<s[i]>>])

\* f.read() of a file opened with open(path, 'r', encoding='utf-8'):
\* universal newlines turn '\r\n' and '\r' into '\n'.
ReadText(b) ==
    Concat([i \in 1..Len(b) |->
              IF b[i] = CR THEN <<LF>>
              ELSE IF b[i] = LF /\ i > 1 /\ b[i-1] = CR THEN <<>>
              ELSE <<b[i]>>])

\* Whether decoding the file as UTF-8 raises UnicodeDecodeError.
DecodeFails(b) == \E i \in 1..Len(b) : b[i] = BADBYTE

Cue(start, end, text) == [start |-> start, end |-> end, text |-> text]

(***************************************************************************)
(* FormatHandler: VTT and SRT                                              *)
(***************************************************************************)
\* save_vtt_from_data, lines 380-386: the text handed to f.write.
VttText(d) ==
    <<WEBVTT, LF, LF>> \o
    Concat([i \in 1..Len(d) |->
              Str(i) \o <<LF>> \o d[i].start \o <<SP, ARROW, SP>> \o d[i].end
                     \o <<LF>> \o d[i].text \o <<LF, LF>>])

\* save_srt_from_data, lines 413-418.
SrtText(d) ==
    Concat([i \in 1..Len(d) |->
              Str(i) \o <<LF>> \o d[i].start \o <<SP, ARROW, SP>> \o d[i].end
                     \o <<LF>> \o d[i].text \o <<LF, LF>>])

\* Lines 365-369: the index of the first line holding " --> ", 0 for -1
\* (lines are numbered from 1 here).
TimestampLineIndex(lines) ==
    LET hits == {i \in 1..Len(lines) : Contains(lines[i], <<SP, ARROW, SP>>)}
    IN  IF hits = {} THEN 0 ELSE Min(hits)

\* A parse_vtt that, like parse_srt, wants three lines in a block: a cue
\* without text is lost.
VttBlockCues_NeedsText(block) ==
    LET lines == Split(Strip(block), <<LF>>)
        t == TimestampLineIndex(lines)
        times == Split(lines[t], <<SP, ARROW, SP>>)
    IN  IF Len(lines) < 3 THEN <<>>
        ELSE IF t = 0 THEN <<>>
        ELSE IF Len(times) # 2 THEN <<>>
        ELSE <<Cue(Strip(times[1]), Strip(times[2]),
                   Join(SubSeq(lines, t + 1, Len(lines)), <<LF>>))>>

\* Lines 363-375: the cues (none or one) a block of a VTT file yields.
VttBlockCues(block) ==
    LET lines == Split(Strip(block), <<LF>>)
        t == TimestampLineIndex(lines)
        times == Split(lines[t], <<SP, ARROW, SP>>)
    IN  IF lines[1] = <<WEBVTT>> THEN <<>>
        ELSE IF t = 0 THEN <<>>
        ELSE IF Len(times) # 2 THEN <<>>
        ELSE <<Cue(Strip(times[1]), Strip(times[2]),
                   Join(SubSeq(lines, t + 1, Len(lines)), <<LF>>))>>

\* A parse_vtt that returns its cues ordered by start time (a stable sort on
\* the seconds field, the first element of a timestamp).
RECURSIVE SortedByStart(_)
SortedByStart(cs) ==
    IF cs = <<>> THEN <<>>
    ELSE LET rank(c) == CHOOSE n \in 1..Len(HMS) : HMS[n] = c.start[1]
             least == Min({i \in 1..Len(cs) : \A j \in 1..Len(cs) : rank(cs[i]) <= rank(cs[j])})
         IN  <<cs[least]>> \o SortedByStart([i \in 1..(Len(cs) - 1) |->
                                                IF i < least THEN cs[i] ELSE cs[i + 1]])

VttCues_Sorted(content) ==
    LET blocks == Split(content, <<LF, LF>>)
    IN  SortedByStart(Concat([i \in 1..Len(blocks) |-> VttBlockCues(blocks[i])]))

\* parse_vtt, lines 354-378, on the text read from the file.
VttCues(content) ==
    LET blocks == Split(content, <<LF, LF>>)
    IN  Concat([i \in 1..Len(blocks) |-> VttBlockCues(blocks[i])])

\* Lines 397-408: the cues (none or one) a block of an SRT file yields.
\* lines[0] and lines[1] of the code are lines[1] and lines[2] here.
SrtBlockCues(block) ==
    LET lines == Split(Strip(block), <<LF>>)
        second == Contains(lines[2], <<ARROW>>)
        first == Contains(lines[1], <<ARROW>>)
        has == second \/ first
        timestamp_line == IF second THEN lines[2] ELSE lines[1]
        times == Split(timestamp_line, <<SP, ARROW, SP>>)
        text_start_idx == IF second THEN 3 ELSE 2
    IN  IF Len(lines) < 3 THEN <<>>
        ELSE IF ~has THEN <<>>
        ELSE IF Len(times) # 2 THEN <<>>
        ELSE <<Cue(Strip(times[1]), Strip(times[2]),
                   Join(SubSeq(lines, text_start_idx, Len(lines)), <<LF>>))>>

\* parse_srt, lines 388-411, on the text read from the file.
SrtCues(content) ==
    LET blocks == Split(Strip(content), <<LF, LF>>)
    IN  Concat([i \in 1..Len(blocks) |-> SrtBlockCues(blocks[i])])

(***************************************************************************)
(* FormatHandler: CSV (the csv module with its default dialect)            *)
(***************************************************************************)
\* None, as DictReader's restval: the value of a column a row is too short for.
NoneValue == <<"None">>

\* doublequote: each '"' of a quoted field is written twice.
DoubleQuotes(f) ==
    Concat([i \in 1..Len(f) |-> IF f[i] = QUOTE THEN <<QUOTE, QUOTE>> ELSE <<f[i]>>])

\* A writer that never quotes (csv.QUOTE_NONE without an escapechar).
CsvField_Unquoted(f) == f

\* QUOTE_MINIMAL: a field is quoted when it holds the delimiter, the
\* quotechar or a character of the line terminator.
CsvField(f) ==
    IF \E i \in 1..Len(f) : f[i] \in {COMMA, QUOTE, CR, LF}
    THEN <<QUOTE>> \o DoubleQuotes(f) \o <<QUOTE>>
    ELSE f

\* writer.writerow(fields): the line terminator is '\r\n'.
CsvRow(fields) ==
    Join([i \in 1..Len(fields) |-> CsvField(fields[i])], <<COMMA>>) \o <<CR, LF>>

\* save_csv_from_data, lines 438-445.  The file is opened with newline='',
\* so the text is written as it is.
CsvText(d) ==
    CsvRow(<<(<<"Start">>), (<<"End">>), (<<"Text">>)>>) \o
    Concat([i \in 1..Len(d) |-> CsvRow(<<d[i].start, d[i].end, d[i].text>>)])

EOL == "EOL"          \* the end-of-line mark csv.reader feeds itself after each line

\* One step of csv.reader's parser on the character c.  p is
\* [state, field, row, rows]: the parser state, the field and the record
\* being read, and the records completed.
CsvChar(p, c) ==
    LET nl == c \in {LF, CR}
        save == Append(p.row, p.field)
        endField == IF c = EOL
                    THEN [state |-> "START_RECORD", field |-> <<>>, row |-> <<>>,
                          rows |-> Append(p.rows, save)]
                    ELSE [p EXCEPT !.state = "EAT_CRNL", !.field = <<>>, !.row = save]
        startField ==
            IF nl \/ c = EOL THEN endField
            ELSE IF c = QUOTE THEN [p EXCEPT !.state = "IN_QUOTED_FIELD"]
            ELSE IF c = COMMA THEN [p EXCEPT !.state = "START_FIELD", !.field = <<>>, !.row = save]
            ELSE [p EXCEPT !.state = "IN_FIELD", !.field = Append(p.field, c)]
    IN  CASE p.state = "ERROR" -> p
          [] p.state = "START_RECORD" ->
                IF c = EOL THEN [p EXCEPT !.rows = Append(p.rows, <<>>)]
                ELSE IF nl THEN [p EXCEPT !.state = "EAT_CRNL"]
                ELSE startField
          [] p.state = "START_FIELD" -> startField
          [] p.state = "IN_FIELD" ->
                IF nl \/ c = EOL THEN endField
                ELSE IF c = COMMA THEN [p EXCEPT !.state = "START_FIELD", !.field = <<>>, !.row = save]
                ELSE [p EXCEPT !.field = Append(p.field, c)]
          [] p.state = "IN_QUOTED_FIELD" ->
                IF c = EOL THEN p
                ELSE IF c = QUOTE THEN [p EXCEPT !.state = "QUOTE_IN_QUOTED_FIELD"]
                ELSE [p EXCEPT !.field = Append(p.field, c)]
          [] p.state = "QUOTE_IN_QUOTED_FIELD" ->
                IF c = QUOTE THEN [p EXCEPT !.state = "IN_QUOTED_FIELD", !.field = Append(p.field, c)]
                ELSE IF c = COMMA THEN [p EXCEPT !.state = "START_FIELD", !.field = <<>>, !.row = save]
                ELSE IF nl \/ c = EOL THEN endField
                ELSE [p EXCEPT !.state = "IN_FIELD", !.field = Append(p.field, c)]
          [] p.state = "EAT_CRNL" ->
                IF nl THEN p
                ELSE IF c = EOL
                     THEN [state |-> "START_RECORD", field |-> <<>>, row |-> <<>>,
                           rows |-> Append(p.rows, p.row)]
                ELSE [p EXCEPT !.state = "ERROR"]

\* The parser after the character at position i: a line ends with its '\n'
\* or with the input, and is followed by the end-of-line mark.
CsvAt(content, i, p) ==
    LET q == CsvChar(p, content[i])
    IN  IF content[i] = LF \/ i = Len(content) THEN CsvChar(q, EOL) ELSE q

RECURSIVE CsvScan(_, _, _, _)
\* The parser after the characters lo..hi, in order; it stops where the
\* reader raises.
CsvScan(content, lo, hi, p) ==
    IF lo > hi THEN p
    ELSE IF lo = hi THEN CsvAt(content, lo, p)
    ELSE LET mid == (lo + hi) \div 2
             q == CsvScan(content, lo, mid, p)
         IN  IF q.state = "ERROR" THEN q ELSE CsvScan(content, mid + 1, hi, q)

\* csv.reader(f): the records of the text and the final state ("ERROR" when
\* the reader raised).  At the end of the input a field being read is saved.
CsvReader(content) ==
    LET p == CsvScan(content, 1, Len(content),
                     [state |-> "START_RECORD", field |-> <<>>, row |-> <<>>, rows |-> <<>>])
    IN  IF p.state # "ERROR" /\ (p.field # <<>> \/ p.state = "IN_QUOTED_FIELD")
        THEN [p EXCEPT !.rows = Append(p.rows, Append(p.row, p.field))]
        ELSE p

\* The last column named key, 0 when there is none.
ColumnOf(fieldnames, key) ==
    LET hits == {i \in 1..Len(fieldnames) : fieldnames[i] = <<key>>}
    IN  IF hits = {} THEN 0 ELSE Max(hits)

\* row[key] of the dict DictReader builds: missing values are None.
DictValue(fieldnames, row, key) ==
    LET j == ColumnOf(fieldnames, key)
    IN  IF j <= Len(row) THEN row[j] ELSE NoneValue

\* Lines 427-433: the cues (none or one) of a data row.  `key in row` holds
\* for every column of the header.  DictReader skips the rows that are [].
CsvRowCues(fieldnames, row) ==
    IF row = <<>> THEN <<>>
    ELSE IF /\ ColumnOf(fieldnames, "Start") # 0
            /\ ColumnOf(fieldnames, "End") # 0
            /\ ColumnOf(fieldnames, "Text") # 0
         THEN <<Cue(DictValue(fieldnames, row, "Start"),
                    DictValue(fieldnames, row, "End"),
                    DictValue(fieldnames, row, "Text"))>>
    ELSE <<>>

\* parse_csv, lines 420-436, on the text read from the file: the first
\* record is the header.
CsvCues(content) ==
    LET rows == CsvReader(content).rows
    IN  IF rows = <<>> THEN <<>>
        ELSE Concat([i \in 1..(Len(rows) - 1) |-> CsvRowCues(rows[1], rows[i + 1])])

(***************************************************************************)
(* VTTProcessor.parse (vtt_processor.py)                                   *)
(***************************************************************************)
\* content.splitlines(), on text whose line ends are '\n'.
SplitLines(content) ==
    LET parts == Split(content, <<LF>>)
    IN  IF parts[Len(parts)] = <<>> THEN SubSeq(parts, 1, Len(parts) - 1) ELSE parts

\* line.isdigit()
IsDigit(line) == line # <<>> /\ \A i \in 1..Len(line) : line[i] \in Digits

\* Whether time_pattern (line 59) matches at position i of the line.
TimeMatchAt(line, i) ==
    /\ i + 8 <= Len(line)
    /\ line[i] \in Range(HMS) /\ line[i+1] = DOT /\ line[i+2] \in Millis
    /\ line[i+3] \in Whitespace /\ line[i+4] = ARROW /\ line[i+5] \in Whitespace
    /\ line[i+6] \in Range(HMS) /\ line[i+7] = DOT /\ line[i+8] \in Millis

\* time_pattern.search(line): the position of the leftmost match, 0 for None.
TimeSearch(line) ==
    LET hits == {i \in 1..Len(line) : TimeMatchAt(line, i)}
    IN  IF hits = {} THEN 0 ELSE Min(hits)

\* Whether '<[^>]+>' matches at position i of s: a '<', a character that is
\* not '>', and a '>' somewhere after it.
TagAt(s, i) ==
    /\ s[i] = "<"
    /\ i + 2 <= Len(s)
    /\ s[i+1] # ">"
    /\ \E j \in (i+2)..Len(s) : s[j] = ">"

RECURSIVE RemoveTags(_)
\* re.sub(r'<[^>]+>', '', s): the leftmost match ends at the first '>'
\* after its second character; the search goes on behind it.
RemoveTags(s) ==
    LET tags == {i \in 1..Len(s) : TagAt(s, i)}
    IN  IF tags = {} THEN s
        ELSE LET i == Min(tags)
                 j == Min({k \in (i+2)..Len(s) : s[k] = ">"})
             IN  SubSeq(s, 1, i - 1) \o RemoveTags(SubSeq(s, j + 1, Len(s)))

\* _add_block, lines 98-107.
AddBlock(blocks, cur) ==
    Append(blocks, Cue(cur.start, cur.end, RemoveTags(Join(cur.text, <<SP>>))))

NoBlock == [has_start |-> FALSE, start |-> <<>>, end |-> <<>>, text |-> <<>>]

RECURSIVE ParseLines(_, _, _, _)
\* The loop of lines 63-93 over the lines from position i, with the block
\* being built and the blocks added so far.
ParseLines(lines, i, cur, blocks) ==
    IF i > Len(lines)
    THEN IF cur.has_start /\ cur.text # <<>> THEN AddBlock(blocks, cur) ELSE blocks
    ELSE LET line == Strip(lines[i])
             m == TimeSearch(line)
         IN  IF line = <<>> \/ line = <<WEBVTT>> \/ IsDigit(line)
             THEN ParseLines(lines, i + 1, cur, blocks)
             ELSE IF m # 0
             THEN LET flush == cur.has_start /\ cur.text # <<>>
                      base == IF flush THEN NoBlock ELSE cur
                  IN  ParseLines(lines, i + 1,
                                 [base EXCEPT !.has_start = TRUE,
                                              !.start = SubSeq(line, m, m + 2),
                                              !.end = SubSeq(line, m + 6, m + 8)],
                                 IF flush THEN AddBlock(blocks, cur) ELSE blocks)
             ELSE ParseLines(lines, i + 1, [cur EXCEPT !.text = Append(cur.text, line)], blocks)

\* VTTProcessor.parse, lines 40-96: self.blocks for the text read.
ProcessorBlocks(content) == ParseLines(SplitLines(content), 1, NoBlock, <<>>)

(***************************************************************************)
(* Calls of the codec                                                      *)
(***************************************************************************)
MaxCues == 2          \* cues in a list handed to a serializer
MaxTextLines == 2     \* lines in the text of a cue
MaxFileLines == 5     \* lines in a file given to a parser

SeqsUpTo(S, n) == UNION {[1..k -> S] : k \in 0..n}

\* The lines a cue text is made of.
TextLines(e) ==
    IF e = "csv" THEN {<<"a", COMMA, QUOTE>>, <<>>}
    ELSE {<<"a">>, <<"x", SP, ARROW, SP, "y">>}

Texts(e) == {Join(ls, <<LF>>) : ls \in SeqsUpTo(TextLines(e), MaxTextLines)}

Notations == {DOT, COMMA}

\* Cue lists: cue i runs from second i to second i+1, in one notation.
CueSeqs(e) ==
    UNION {{[i \in 1..n |-> Cue(<<HMS[i], sep, "000">>, <<HMS[i+1], sep, "000">>, t[i])] :
               t \in [1..n -> Texts(e)]} : n \in 0..MaxCues, sep \in Notations}

TimeLine(a, b) == a \o <<SP, ARROW, SP>> \o b

\* The lines a subtitle file given to a parser is made of.
SubtitleLines ==
    {<<>>, <<"1">>, <<"a">>, <<WEBVTT>>,
     TimeLine(VttTime(1), VttTime(2)), TimeLine(SrtTime(1), SrtTime(2))}

CsvHeaders == {<<"Start", COMMA, "End", COMMA, "Text">>, <<"Start", COMMA, "End">>}

\* The lines after the header of a CSV file given to parse_csv.
CsvLines ==
    {<<>>,
     VttTime(1) \o <<COMMA>> \o VttTime(2) \o <<COMMA, "a">>,
     VttTime(3) \o <<COMMA>> \o VttTime(4),
     VttTime(5) \o <<COMMA>> \o VttTime(6) \o <<COMMA, "a", COMMA, "b">>,
     VttTime(1) \o <<COMMA>> \o VttTime(2) \o <<COMMA, QUOTE, "a">>}

\* The text of a file of the given lines, each ended by '\n'.
FileText(lines) == Concat([i \in 1..Len(lines) |-> lines[i] \o <<LF>>])

\* Files a user can hand to a parser: text files of at most MaxFileLines
\* lines, and a file that is not UTF-8.
GivenTexts(e) ==
    IF e = "csv"
    THEN {FileText(<<h>> \o ls) : h \in CsvHeaders, ls \in SeqsUpTo(CsvLines, MaxFileLines - 1)}
    ELSE {FileText(ls) : ls \in SeqsUpTo(SubtitleLines, MaxFileLines)}

Formats == {"vtt", "srt", "csv"}

\* save_vtt_from_data(data, output_path)
SaveVttFromData ==
    /\ op = "data" /\ ext = "vtt"
    /\ file' = WriteText(VttText(data), windows)
    /\ op' = "saved"
    /\ UNCHANGED <<ext, windows, data, cues, logged, loadVars, appVars>>

\* save_srt_from_data(data, output_path)
SaveSrtFromData ==
    /\ op = "data" /\ ext = "srt"
    /\ file' = WriteText(SrtText(data), windows)
    /\ op' = "saved"
    /\ UNCHANGED <<ext, windows, data, cues, logged, loadVars, appVars>>

\* save_csv_from_data(data, output_path): newline='' switches the
\* translation of '\n' off.
SaveCsvFromData ==
    /\ op = "data" /\ ext = "csv"
    /\ file' = CsvText(data)
    /\ op' = "saved"
    /\ UNCHANGED <<ext, windows, data, cues, logged, loadVars, appVars>>

\* FormatHandler.parse_vtt(file_path): what it returns and how often it logs.
\* An exception (here: the file is not UTF-8) is caught, logged, and the cues
\* collected so far are returned.
ParseVtt ==
    /\ ext = "vtt"
    /\ op \in {"saved", "given"}
    /\ op' = "parse_vtt"
    /\ IF DecodeFails(file)
       THEN cues' = <<>> /\ logged' = 1
       ELSE cues' = VttCues(ReadText(file)) /\ logged' = 0
    /\ UNCHANGED <<ext, windows, data, file, loadVars, appVars>>

\* FormatHandler.parse_srt(file_path), with the same handling of exceptions.
ParseSrt ==
    /\ ext = "srt"
    /\ op \in {"saved", "given"}
    /\ op' = "parse_srt"
    /\ IF DecodeFails(file)
       THEN cues' = <<>> /\ logged' = 1
       ELSE cues' = SrtCues(ReadText(file)) /\ logged' = 0
    /\ UNCHANGED <<ext, windows, data, file, loadVars, appVars>>

\* FormatHandler.parse_csv(file_path); a csv.Error raised while iterating is
\* caught and logged like any other exception.
ParseCsv ==
    /\ ext = "csv"
    /\ op \in {"saved", "given"}
    /\ op' = "parse_csv"
    /\ IF DecodeFails(file)
       THEN cues' = <<>> /\ logged' = 1
       ELSE /\ cues' = CsvCues(ReadText(file))
            /\ logged' = IF CsvReader(ReadText(file)).state = "ERROR" THEN 1 ELSE 0
    /\ UNCHANGED <<ext, windows, data, file, loadVars, appVars>>

\* VTTProcessor(filepath).parse(): a file that is not UTF-8 is read as
\* latin-1 instead.
ProcessorParse ==
    /\ ext = "vtt"
    /\ op \in {"saved", "given"}
    /\ op' = "processor_parse"
    /\ cues' = ProcessorBlocks(ReadText(file))
    /\ logged' = 0
    /\ UNCHANGED <<ext, windows, data, file, loadVars, appVars>>

InitLoadIdle == InitLoad /\ status_callback /\ InitAppIdle

\* A cue list about to be serialized.
InitCodec ==
    /\ InitLoadIdle
    /\ op = "data"
    /\ ext \in Formats
    /\ windows \in (IF ext = "csv" THEN {FALSE} ELSE BOOLEAN)  \* newline='' for CSV
    /\ data \in CueSeqs(ext)
    /\ file = <<>>
    /\ cues = <<>>
    /\ logged = 0

NextCodec ==
    \/ SaveVttFromData
    \/ SaveSrtFromData
    \/ SaveCsvFromData
    \/ ParseVtt
    \/ ParseSrt
    \/ ParseCsv

SpecCodec == InitCodec /\ [][NextCodec]_vars

\* A file on disk about to be parsed.
InitParse ==
    /\ InitLoadIdle
    /\ op = "given"
    /\ ext \in Formats
    /\ windows \in BOOLEAN
    /\ data = <<>>
    /\ file \in {WriteText(t, windows) : t \in GivenTexts(ext)} \cup {<<BADBYTE>>}
    /\ cues = <<>>
    /\ logged = 0

NextParse ==
    \/ ParseVtt
    \/ ParseSrt
    \/ ParseCsv
    \/ ProcessorParse

SpecParse == InitParse /\ [][NextParse]_vars

(***************************************************************************)
(* Claims about Transcriber.load_model                                     *)
(***************************************************************************)
Pair(e) == <<e.device, e.ctype>>
Pairs(a) == [i \in 1..Len(a) |-> Pair(a[i])]
OnDevice(list, d) == [i \in 1..Len(list) |-> <<d, list[i]>>]
IsPrefix(s, t) == Len(s) <= Len(t) /\ \A i \in 1..Len(s) : s[i] = t[i]
Ended == pc = "idle" /\ outcome \in {"ready", "load_error"}
Succeeded == {i \in 1..Len(Attempts) : Attempts[i].ok}

\* C1: the 'could not load on any device/compute type' error is raised only
\* after every combination of the ladder has been attempted and has failed:
\* the four CUDA precisions and then the two CPU precisions when the resolved
\* device is cuda, the two CPU precisions otherwise.
C1_RaisesOnlyAfterWholeLadder ==
    (pc = "idle" /\ outcome = "load_error") =>
        LET a == Attempts
            n == IF resolved = "cuda" THEN Len(CUDA_TYPES) ELSE 0
        IN  /\ Len(a) = n + Len(CPU_TYPES)
            /\ \A i \in 1..Len(a) : ~a[i].ok
            /\ \A i \in 1..n : a[i].device = "cuda"
            /\ {a[i].ctype : i \in 1..n} = {CUDA_TYPES[k] : k \in 1..n}
            /\ \A i \in (n+1)..Len(a) : a[i].device = "cpu"
            /\ {a[i].ctype : i \in (n+1)..Len(a)} = Range(CPU_TYPES)

\* C1 witness: the error was raised for a call whose resolved device is cuda.
C1_Witness ==
    pc = "idle" /\ outcome = "load_error" /\ resolved = "cuda" /\ Len(Attempts) = 6

\* C2: a call that does not take the early return and in which no
\* construction succeeds raises instead of reporting READY, whatever the
\* prior state of the Transcriber.
C2_NoSuccessRaises ==
    (pc = "idle" /\ outcome \in {"ready", "load_error", "download_error"}
       /\ Succeeded = {})
        => outcome # "ready"

\* The ladder of a call as the claim C3 states it: the lists in their written order.
DefaultLadder == IF resolved = "cuda"
                 THEN OnDevice(CUDA_TYPES, "cuda") \o OnDevice(CPU_TYPES, "cpu")
                 ELSE OnDevice(CPU_TYPES, "cpu")

\* The ladder with an explicitly requested CUDA precision moved to the front.
RequestedLadder == IF resolved = "cuda"
                   THEN OnDevice(CudaOrder(arg_compute_type), "cuda") \o OnDevice(CPU_TYPES, "cpu")
                   ELSE OnDevice(CPU_TYPES, "cpu")

\* The attempts made so far follow `ladder`, only the last of them can have
\* succeeded, and a call that ended after a success holds the handle and the
\* pair of that attempt.
FollowsLadder(ladder) ==
    outcome \in {"running", "ready", "load_error"} =>
        LET a == Attempts IN
        /\ IsPrefix(Pairs(a), ladder)
        /\ \A i \in 1..Len(a) : a[i].ok => i = Len(a)
        /\ (pc = "idle" /\ outcome = "load_error") => Succeeded = {}
        /\ (pc = "idle" /\ outcome = "ready" /\ Succeeded # {} /\ whisper_model # NoModel) =>
              /\ whisper_model = WhisperModel(arg_model, a[Len(a)].device, a[Len(a)].ctype)
              /\ <<last_device, last_compute_type>> = Pair(a[Len(a)])

\* C3 as stated: attempts follow the lists in their written order (cuda:
\* float16, int8_float16, int8, float32, then cpu: int8, float32), stop at the
\* first success, and the handle and recorded pair are those of that attempt.
C3_Original == FollowsLadder(DefaultLadder)

\* C3 amended: attempts follow the ladder in which a compute type the caller
\* requested explicitly, if it is in the CUDA list, is tried first on CUDA;
\* the CPU list comes only after every CUDA precision failed; the call stops
\* at the first success and holds the handle and pair of that attempt.
C3_LadderOrder == FollowsLadder(RequestedLadder)

\* C3 witness: a call with an explicitly requested precision that fell back
\* from CUDA to a successful CPU attempt.
C3_Witness ==
    /\ pc = "idle" /\ outcome = "ready"
    /\ resolved = "cuda" /\ arg_compute_type = "int8"
    /\ Len(Attempts) = 6 /\ Attempts[6].ok /\ whisper_model # NoModel

\* C4: every construction is preceded by the status message naming its
\* device and precision, every failed construction is followed by its failure
\* message before anything else happens, and a call that reports READY names
\* the device and precision of the handle it holds.
C4_StatusAtEveryAttempt ==
    /\ \A i \in 1..Len(trace) :
          trace[i].kind = "attempt" =>
             /\ i > 1
             /\ trace[i-1] = StatusMsg("trying", arg_model, trace[i].device, trace[i].ctype)
             /\ ~trace[i].ok =>
                   IF i = Len(trace)
                   THEN pc \in {"cuda_except", "cpu_except"}
                   ELSE trace[i+1] = StatusMsg("failed", arg_model, trace[i].device, trace[i].ctype)
    /\ (pc = "idle" /\ outcome = "ready" /\ whisper_model # NoModel) =>
          /\ Len(Status) > 0
          /\ trace[Len(trace)] =
                StatusMsg("ready", arg_model, whisper_model.device, whisper_model.ctype)
    /\ \A i \in 1..Len(trace) : trace[i].kind = "ready" => i = Len(trace) /\ outcome = "ready"

\* C4 witness: a load that succeeded on CPU after CUDA attempts failed, every
\* message delivered to the callback.
C4_Witness ==
    /\ pc = "idle" /\ outcome = "ready" /\ status_callback
    /\ Len(Attempts) = 5 /\ Attempts[5].ok /\ whisper_model # NoModel
    /\ Len(Delivered) = 10

(***************************************************************************)
(* Claims about FormatHandler's serializers and parsers                    *)
(***************************************************************************)
\* C5: VTT round trip.  For every list of cues whose start, end and text are
\* trimmed strings without a blank line (the text may be empty or span
\* several lines), parse_vtt on the file written by save_vtt_from_data
\* returns the same cues in the same order.
C5_VttRoundTrip == op = "parse_vtt" => (cues = data /\ logged = 0)

\* C5 witness: a list of two cues, the first without text and the second
\* with a text of two lines, was written and read back.
C5_Witness ==
    /\ op = "parse_vtt" /\ Len(data) = 2
    /\ data[1].text = <<>> /\ LF \in Range(data[2].text)
    /\ cues = data

\* C6: SRT round trip.  For every list of cues whose start, end and text are
\* trimmed strings without a blank line (the text may be empty), parse_srt on
\* the file written by save_srt_from_data returns the same cues in the same
\* order.
C6_SrtRoundTrip == op = "parse_srt" => cues = data

\* C7: CSV round trip.  For every list of cues (the text may be empty and may
\* hold commas, quotes and line breaks), parse_csv on the file written by
\* save_csv_from_data returns the same cues in the same order.
C7_CsvRoundTrip == op = "parse_csv" => (cues = data /\ logged = 0)

\* C7 witness: a list of two cues, one without text and one whose text holds
\* a comma, a quote and a line break, was written and read back.
C7_Witness ==
    /\ op = "parse_csv" /\ Len(data) = 2
    /\ data[1].text = <<>>
    /\ {COMMA, QUOTE, LF} \subseteq Range(data[2].text)
    /\ cues = data

\* The blocks parse_vtt (line 360) and parse_srt (line 394) cut the text into.
Blocks(e, content) ==
    IF e = "srt" THEN Split(Strip(content), <<LF, LF>>) ELSE Split(content, <<LF, LF>>)

\* A line of the form 'start --> end'.
IsTimestampLine(line) == Len(Split(line, <<SP, ARROW, SP>>)) = 2

HasTimestampLine(block) ==
    \E line \in Range(Split(block, <<LF>>)) : IsTimestampLine(line)

\* C8: in parse_vtt and parse_srt a block of the file yields a cue if and only
\* if it contains a timestamp line of the form 'start --> end'; the other
\* blocks are skipped without raising and without changing the cues of the
\* rest: the cues returned are as many as the blocks with a timestamp line.
C8_CueIffTimestampLine ==
    (op \in {"parse_vtt", "parse_srt"} /\ ~DecodeFails(file)) =>
        LET blocks == Blocks(ext, ReadText(file))
        IN  /\ logged = 0
            /\ Len(cues) = Cardinality({i \in 1..Len(blocks) : HasTimestampLine(blocks[i])})

\* C9: parse_csv drops each malformed data row (one lacking a Start, End or
\* Text value) and keeps the well-formed rows around it: no cue returned has
\* a missing field.
C9_NoCueWithMissingField ==
    op = "parse_csv" =>
        \A i \in 1..Len(cues) :
            NoneValue \notin {cues[i].start, cues[i].end, cues[i].text}

\* The separator of seconds and milliseconds in the notation of a format.
OwnSeparator(e) == IF e = "srt" THEN COMMA ELSE DOT

\* A timestamp pair 'HH:MM:SS<sep>mmm --> HH:MM:SS<sep>mmm' at position i.
OwnPairAt(line, i, sep) ==
    /\ i + 8 <= Len(line)
    /\ line[i] \in Range(HMS) /\ line[i+1] = sep /\ line[i+2] \in Millis
    /\ line[i+3] = SP /\ line[i+4] = ARROW /\ line[i+5] = SP
    /\ line[i+6] \in Range(HMS) /\ line[i+7] = sep /\ line[i+8] \in Millis

NoOwnTimestamp(e, content) ==
    \A line \in Range(Split(content, <<LF>>)) :
        \A i \in 1..Len(line) : ~OwnPairAt(line, i, OwnSeparator(e))

\* C10: parsing a subtitle file in which no line carries a timestamp pair in
\* the notation of the format (a dot before the milliseconds for VTT, a comma
\* for SRT) yields an empty cue list and raises nothing, for parse_vtt,
\* parse_srt and VTTProcessor.parse.
C10_NoTimestampNoCues ==
    (/\ op \in {"parse_vtt", "parse_srt", "processor_parse"}
     /\ NoOwnTimestamp(ext, ReadText(file))) => cues = <<>>

(***************************************************************************)
(* FormatHandler on well-formed files of the four formats                  *)
(***************************************************************************)
\* parse_txt, lines 448-456: the stripped lines that are not blank.
TxtLines(content) ==
    LET lines == SplitLines(content)
        kept == SelectSeq(lines, LAMBDA l : Strip(l) # <<>>)
    IN  [i \in 1..Len(kept) |-> Strip(kept[i])]

\* save_txt_from_data, lines 459-463: the text handed to f.write.
TxtText(lines) == Concat([i \in 1..Len(lines) |-> lines[i] \o <<LF>>])

\* save_txt_from_data(lines, output_path)
SaveTxtFromData ==
    /\ op = "data" /\ ext = "txt"
    /\ file' = WriteText(TxtText(data), windows)
    /\ op' = "saved"
    /\ UNCHANGED <<ext, windows, data, cues, logged, loadVars, appVars>>

\* FormatHandler.parse_txt(file_path)
ParseTxt ==
    /\ ext = "txt"
    /\ op \in {"saved", "given"}
    /\ op' = "parse_txt"
    /\ IF DecodeFails(file)
       THEN cues' = <<>> /\ logged' = 1
       ELSE cues' = TxtLines(ReadText(file)) /\ logged' = 0
    /\ UNCHANGED <<ext, windows, data, file, loadVars, appVars>>

AllFormats == Formats \cup {"txt"}

\* The timestamp of second n in the notation the serializers of a format use
\* (format_srt_time for SRT, format_vtt_time for the others).
TimeIn(e, n) == IF e = "srt" THEN SrtTime(n) ELSE VttTime(n)

\* The second a timestamp stands for.
SecondOf(t) == CHOOSE n \in 1..Len(HMS) : HMS[n] = t[1]

\* The seconds the entries of a file start and end at.
Seconds == {1, 2, 3}

\* The lines of a TXT file: words, a blank line, an indented line.
TxtFileLines == {<<"a">>, <<"b">>, <<>>, <<SP, "a">>}

\* The entries of a well-formed file, in the order of the file: cues with a
\* text of one line, whose times are in no particular order, or, for TXT,
\* lines.
EntrySeqs(e) ==
    IF e = "txt"
    THEN SeqsUpTo(TxtFileLines, MaxCues + 1)
    ELSE SeqsUpTo({Cue(TimeIn(e, a), TimeIn(e, b), t) :
                     a \in Seconds, b \in Seconds, t \in {<<"a">>, <<"b">>}}, MaxCues)

\* A list of entries about to be written to a file of its format and read back.
InitEntries ==
    /\ InitLoadIdle
    /\ op = "data"
    /\ ext \in AllFormats
    /\ windows \in (IF ext = "csv" THEN {FALSE} ELSE BOOLEAN)
    /\ data \in EntrySeqs(ext)
    /\ file = <<>>
    /\ cues = <<>>
    /\ logged = 0

NextEntries ==
    \/ SaveVttFromData
    \/ SaveSrtFromData
    \/ SaveCsvFromData
    \/ SaveTxtFromData
    \/ ParseVtt
    \/ ParseSrt
    \/ ParseCsv
    \/ ParseTxt

SpecEntries == InitEntries /\ [][NextEntries]_vars

(***************************************************************************)
(* Claims about the entries the parsers return                             *)
(***************************************************************************)
\* The entries a parser is to return for the file written from d: the cues,
\* or the stripped non-blank lines of a TXT file, in the order of the file.
EntriesOf(e, d) ==
    IF e = "txt"
    THEN LET kept == SelectSeq(d, LAMBDA l : Strip(l) # <<>>)
         IN  [i \in 1..Len(kept) |-> Strip(kept[i])]
    ELSE d

Parsed == op \in {"parse_vtt", "parse_srt", "parse_csv", "parse_txt"}

\* C11: each FormatHandler parser returns exactly one entry per cue block
\* (VTT, SRT), per data row (CSV) or per non-blank line (TXT) of a well-formed
\* file, in the order of the file; the result is never re-sorted by start
\* time.
C11_OneEntryPerBlockInFileOrder ==
    Parsed => (cues = EntriesOf(ext, data) /\ logged = 0)

\* C11 witness: a file whose second cue starts before its first one was
\* parsed, and the cues came back in the order of the file.
C11_Witness ==
    /\ Parsed /\ ext # "txt" /\ Len(data) = 2
    /\ SecondOf(data[2].start) < SecondOf(data[1].start)
    /\ cues = data

\* C12: every cue a parser returns and every cue a serializer writes
\* satisfies start <= end.
C12_StartNotAfterEnd ==
    (op \in {"saved", "parse_vtt", "parse_srt", "parse_csv"}) =>
        /\ \A i \in 1..Len(data) : SecondOf(data[i].start) <= SecondOf(data[i].end)
        /\ \A i \in 1..Len(cues) : SecondOf(cues[i].start) <= SecondOf(cues[i].end)

(***************************************************************************)
(* Claims about the order of precisions in load_model                      *)
(***************************************************************************)
\* The precision list of a device.
TypesOf(d) == IF d = "cuda" THEN CUDA_TYPES ELSE CPU_TYPES

\* The list of a device with an explicitly requested precision of that list
\* moved to its front.
RequestedOrder(d, c) ==
    IF c # "default" /\ c \in Range(TypesOf(d)) THEN MoveToFront(TypesOf(d), c)
    ELSE TypesOf(d)

\* The precisions attempted so far on the resolved device, in order.
AttemptedOnResolved ==
    LET a == SelectSeq(Attempts, LAMBDA e : e.device = resolved)
    IN  [i \in 1..Len(a) |-> a[i].ctype]

\* C19: when the caller requests a compute type (not 'default') that is in
\* the precision list of the resolved device, load_model attempts it first on
\* that device and then the rest of the list in its default relative order;
\* 'default' or a type outside the list leaves the order unchanged.
C19_RequestedPrecisionFirst ==
    outcome \in {"running", "ready", "load_error"} =>
        IsPrefix(AttemptedOnResolved, RequestedOrder(resolved, arg_compute_type))

(***************************************************************************)
(* Jobs: TextifierCore.transcribe_media, TextifierCore.translate_file and  *)
(* Textifier.translate_vtt (textifier.py)                                  *)
(***************************************************************************)
MaxSegments == 2      \* segments the inference engine emits for a file
MaxEntries == 2       \* cues or lines in a file to translate

\* A file name is the sequence of its dot-separated parts: my.talk.mp4 is
\* <<"my", "talk", "mp4">>.
\* PurePath.stem: the name without its last suffix.
Stem(name) == IF Len(name) > 1 THEN SubSeq(name, 1, Len(name) - 1) ELSE name

\* PurePath.suffix, "" when the name has none.
Suffix(name) == IF Len(name) > 1 THEN name[Len(name)] ELSE ""

\* PurePath.with_suffix: the last suffix of the name is replaced, or the
\* suffix is added when the name has none.
WithSuffix(name, suffix) == Stem(name) \o <<suffix>>

\* A path: the directory, the name and, for a translation, the language tag
\* appended to the stem.
PathOf(dir, name, lang) == [dir |-> dir, name |-> name, lang |-> lang]

Returned(v) == [kind |-> "returned", value |-> v]
ReturnedNone == [kind |-> "None", value |-> <<>>]
Raised(e) == [kind |-> e, value |-> <<>>]

Event(kind, kwargs) == [kind |-> kind, kwargs |-> kwargs]

MediaNames == {<<"talk", "mp4">>, <<"my", "talk", "mp4">>, <<"talk">>}
TextNames == {<<"talk", "vtt">>, <<"talk", "srt">>, <<"talk", "txt">>, <<"talk", "csv">>,
              <<"talk", "mp4">>}
TranslatableSuffixes == {"vtt", "srt", "csv", "txt"}

\* Lines 235-239 pass **kwargs on to whisper_model.transcribe.
KwargSets == {{}, {"language"}, {"output_format"}, {"output_format", "language"}}

\* transcribe_media(input_path, output_dir, **kwargs), lines 517-535:
\* _normalize_path, the removal of output_format, the default prompt and the
\* load of the model when none is held.
CallTranscribeMedia ==
    /\ jpc = "idle"
    /\ \E exists \in BOOLEAN, name \in MediaNames, output_dir \in {"none", "out"},
          kwargs \in KwargSets, nseg \in 0..MaxSegments,
          held \in BOOLEAN, load_ok \in BOOLEAN :
         /\ job' = [kind |-> "transcribe", exists |-> exists, name |-> name,
                    output_dir |-> output_dir, kwargs |-> kwargs, nseg |-> nseg]
         /\ IF ~exists
            THEN /\ result' = Raised("FileNotFoundError")
                 /\ jpc' = "done"
                 /\ events' = events
            ELSE IF held
            THEN /\ jpc' = "transcribe"
                 /\ UNCHANGED <<result, events>>
            ELSE /\ events' = Append(events, Event("load_whisper", {}))
                 /\ IF load_ok
                    THEN jpc' = "transcribe" /\ result' = result
                    ELSE jpc' = "done" /\ result' = Raised("RuntimeError")
    /\ UNCHANGED <<written, stop_requested, emitted, appended, stop_at,
                   loadVars, codecVars, moreVars, guiVars, procVars>>

\* Transcriber.transcribe, lines 235-241: the flag is cleared, the audio is
\* loaded and the inference generator is created.
TranscribeBegin ==
    /\ jpc = "transcribe"
    /\ stop_requested' = FALSE
    /\ stop_at' = -1
    /\ events' = Append(events, Event("infer", (job.kwargs \ {"output_format"}) \cup {"initial_prompt"}))
    /\ emitted' = 0
    /\ appended' = 0
    /\ jpc' = "iterating"
    /\ UNCHANGED <<job, written, result, loadVars, codecVars, moreVars, guiVars, procVars>>

\* Line 242: the for loop takes the next segment from the generator.
NextSegment ==
    /\ jpc = "iterating"
    /\ emitted < job.nseg
    /\ emitted' = emitted + 1
    /\ jpc' = "check"
    /\ UNCHANGED <<job, events, written, result, stop_requested, appended, stop_at,
                   loadVars, codecVars, moreVars, guiVars, procVars>>

\* A loop that never looks at the flag: every emitted segment is appended.
CheckStop_Ignored ==
    /\ jpc = "check"
    /\ appended' = appended + 1
    /\ jpc' = "iterating"
    /\ UNCHANGED <<job, events, written, result, stop_requested, emitted, stop_at,
                   loadVars, codecVars, moreVars, guiVars, procVars>>

\* Lines 243-246, and lines 532-533 of transcribe_media: with the flag set
\* transcribe returns None and so does transcribe_media; else the segment is
\* appended.
CheckStop ==
    /\ jpc = "check"
    /\ IF stop_requested
       THEN /\ result' = ReturnedNone
            /\ jpc' = "done"
            /\ appended' = appended
       ELSE /\ appended' = appended + 1
            /\ jpc' = "iterating"
            /\ result' = result
    /\ UNCHANGED <<job, events, written, stop_requested, emitted, stop_at,
                   loadVars, codecVars, moreVars, guiVars, procVars>>

\* The four paths of lines 538-562.
OutputPaths(j) ==
    LET dir == IF j.output_dir = "none" THEN "in" ELSE j.output_dir
        base == Stem(j.name)
    IN  <<PathOf(dir, WithSuffix(base, "vtt"), ""), PathOf(dir, WithSuffix(base, "srt"), ""),
          PathOf(dir, WithSuffix(base, "txt"), ""), PathOf(dir, WithSuffix(base, "csv"), "")>>

\* The generator is exhausted: transcribe returns (result_segments, info),
\* and transcribe_media (lines 534-564) writes the four files and returns
\* their paths.
WriteAllFormats ==
    /\ jpc = "iterating"
    /\ emitted = job.nseg
    /\ written' = written \o OutputPaths(job)
    /\ result' = Returned(OutputPaths(job))
    /\ jpc' = "done"
    /\ UNCHANGED <<job, events, stop_requested, emitted, appended, stop_at,
                   loadVars, codecVars, moreVars, guiVars, procVars>>

\* Another thread sets core.stop_requested (the setter of lines 513-515)
\* while the job runs.
RequestStop ==
    /\ jpc \in {"transcribe", "iterating", "check"}
    /\ ~stop_requested
    /\ stop_requested' = TRUE
    /\ stop_at' = IF jpc = "transcribe" THEN -1 ELSE appended
    /\ UNCHANGED <<jpc, job, events, written, result, emitted, appended,
                   loadVars, codecVars, moreVars, guiVars, procVars>>

\* translate_file(input_path, source_lang, target_lang, output_dir), lines
\* 570-589: _normalize_path, the format from the suffix, the parse.
CallTranslateFile ==
    /\ jpc = "idle"
    /\ \E exists \in BOOLEAN, name \in TextNames, output_dir \in {"none", "out"},
          supported \in BOOLEAN, entries \in 0..MaxEntries, loaded \in BOOLEAN :
         /\ job' = [kind |-> "translate", exists |-> exists, name |-> name,
                    output_dir |-> output_dir, supported |-> supported,
                    entries |-> entries, loaded |-> loaded, done |-> 0]
         /\ IF ~exists
            THEN result' = Raised("FileNotFoundError") /\ jpc' = "done"
            ELSE IF Suffix(name) \notin TranslatableSuffixes
            THEN result' = Raised("ValueError") /\ jpc' = "done"
            ELSE result' = result /\ jpc' = "translating"
    /\ UNCHANGED <<events, written, stop_requested, emitted, appended, stop_at,
                   loadVars, codecVars, moreVars, guiVars, procVars>>

\* One pass of the loops of lines 592-602: Translator.translate (lines
\* 273-305) loads the model when none is held, raises ValueError for a target
\* language the tokenizer does not know, and else translates the text.
TranslateEntry ==
    /\ jpc = "translating"
    /\ job.done < job.entries
    /\ LET loads == IF job.loaded THEN <<>> ELSE <<Event("load_translation", {})>>
       IN  IF ~job.supported
           THEN /\ events' = events \o loads
                /\ result' = Raised("ValueError")
                /\ jpc' = "done"
                /\ job' = [job EXCEPT !.loaded = TRUE]
           ELSE /\ events' = events \o loads \o <<Event("translate", {})>>
                /\ job' = [job EXCEPT !.loaded = TRUE, !.done = @ + 1]
                /\ UNCHANGED <<result, jpc>>
    /\ UNCHANGED <<written, stop_requested, emitted, appended, stop_at,
                   loadVars, codecVars, moreVars, guiVars, procVars>>

\* The path of lines 605-606: <stem>_<target_lang><suffix> in the output
\* directory, or next to the input.
TranslatedPath(j) ==
    PathOf(IF j.output_dir = "none" THEN "in" ELSE j.output_dir, j.name, "target")

\* Lines 604-620: the translated entries are saved and the path returned.
SaveTranslation ==
    /\ jpc = "translating"
    /\ job.done = job.entries
    /\ written' = Append(written, TranslatedPath(job))
    /\ result' = Returned(<<TranslatedPath(job)>>)
    /\ jpc' = "done"
    /\ UNCHANGED <<job, events, stop_requested, emitted, appended, stop_at,
                   loadVars, codecVars, moreVars, guiVars, procVars>>

\* Textifier.translate_vtt(input_path, target_lang), textifier.py lines
\* 126-137: _load_translation_model comes first.
CallLegacyTranslateVtt ==
    /\ jpc = "idle"
    /\ \E exists \in BOOLEAN, supported \in BOOLEAN, loaded \in BOOLEAN,
          model_on_disk \in BOOLEAN :
         /\ job' = [kind |-> "legacy_translate", exists |-> exists, name |-> <<"talk", "vtt">>,
                    output_dir |-> "none", supported |-> supported,
                    entries |-> 0, loaded |-> TRUE, done |-> 0]
         /\ IF loaded
            THEN jpc' = "legacy_path" /\ UNCHANGED <<result, events>>
            ELSE IF ~model_on_disk
            THEN /\ result' = Raised("FileNotFoundError")
                 /\ jpc' = "done"
                 /\ events' = events
            ELSE /\ events' = Append(events, Event("load_translation", {}))
                 /\ jpc' = "legacy_path"
                 /\ result' = result
    /\ UNCHANGED <<written, stop_requested, emitted, appended, stop_at,
                   loadVars, codecVars, moreVars, guiVars, procVars>>

\* textifier.py lines 139-215: _normalize_path, the check of the target
\* language, then the translation of the lines into the output file.
LegacyTranslateVtt ==
    /\ jpc = "legacy_path"
    /\ IF ~job.exists
       THEN /\ result' = Raised("FileNotFoundError")
            /\ UNCHANGED <<events, written>>
       ELSE IF ~job.supported
       THEN /\ result' = Raised("ValueError")
            /\ UNCHANGED <<events, written>>
       ELSE /\ events' = Append(events, Event("translate", {}))
            /\ written' = Append(written, TranslatedPath(job))
            /\ result' = Returned(<<TranslatedPath(job)>>)
    /\ jpc' = "done"
    /\ UNCHANGED <<job, stop_requested, emitted, appended, stop_at,
                   loadVars, codecVars, moreVars, guiVars, procVars>>

InitJob == InitLoadIdle /\ InitCodecIdle

NextJob ==
    \/ CallTranscribeMedia
    \/ TranscribeBegin
    \/ NextSegment
    \/ CheckStop
    \/ WriteAllFormats
    \/ RequestStop
    \/ CallTranslateFile
    \/ TranslateEntry
    \/ SaveTranslation
    \/ CallLegacyTranslateVtt
    \/ LegacyTranslateVtt

SpecJob == InitJob /\ [][NextJob]_vars

(***************************************************************************)
(* Claims about the jobs                                                   *)
(***************************************************************************)
TranscriptionDone == jpc = "done" /\ job.kind = "transcribe"

TranslationDone == jpc = "done" /\ job.kind \in {"translate", "legacy_translate"}

\* C14 as stated: once stop_requested is set while transcribe iterates over
\* the segments, no further segment is appended, and the job ends returning
\* None with no output file written.
C14_StopReturnsNone ==
    /\ stop_at >= 0 => appended = stop_at
    /\ (TranscriptionDone /\ stop_at >= 0) => (result = ReturnedNone /\ written = <<>>)

\* C14, amended: once stop_requested is set while transcribe iterates, no
\* further segment is appended; when the engine emits another segment after
\* that, the job ends returning None with no file written; when the flag was
\* set after the last segment had been appended, nothing tests it any more
\* and the job completes with its four files.
C14_StopAtNextSegment ==
    /\ stop_at >= 0 => appended = stop_at
    /\ (TranscriptionDone /\ stop_at >= 0 /\ stop_at < job.nseg)
          => (result = ReturnedNone /\ written = <<>>)
    /\ (TranscriptionDone /\ stop_at >= 0 /\ stop_at = job.nseg)
          => (result = Returned(OutputPaths(job)) /\ written = OutputPaths(job))

\* The job was stopped after its first segment, with one more to come.
C14_Witness ==
    /\ TranscriptionDone
    /\ stop_at = 1
    /\ job.nseg = 2
    /\ emitted = 2
    /\ result = ReturnedNone

\* C15: a job whose input path does not exist ends with the not-found error
\* and no model was downloaded, loaded or invoked for it before.
C15_NotFoundBeforeModelWork ==
    (jpc = "done" /\ ~job.exists) => (result = Raised("FileNotFoundError") /\ events = <<>>)

\* C16: a translation job on an existing file of a supported format whose
\* target language is not supported ends with ValueError and writes no file.
C16_UnsupportedTargetIsValueError ==
    (TranslationDone /\ job.exists /\ Suffix(job.name) \in TranslatableSuffixes /\ ~job.supported)
        => (result = Raised("ValueError") /\ written = <<>>)

\* The four paths <input stem>.vtt, .srt, .txt, .csv of the claim.
StemPaths(j) ==
    LET dir == IF j.output_dir = "none" THEN "in" ELSE j.output_dir
    IN  <<PathOf(dir, Stem(j.name) \o <<"vtt">>, ""), PathOf(dir, Stem(j.name) \o <<"srt">>, ""),
          PathOf(dir, Stem(j.name) \o <<"txt">>, ""), PathOf(dir, Stem(j.name) \o <<"csv">>, "")>>

\* C20: a completed transcription has written exactly the four files
\* <input stem>.vtt, .srt, .txt and .csv, in the output directory or next to
\* the input, has returned those paths in that order, and output_format was
\* never passed to the inference engine.
C20_FourFilesNamedByStem ==
    (TranscriptionDone /\ result.kind = "returned")
        => /\ written = StemPaths(job)
           /\ result.value = written
           /\ \A i \in 1..Len(events) : "output_format" \notin events[i].kwargs

(***************************************************************************)
(* The GUI jobs of gui_main.py: the start_* handlers of the main thread    *)
(* and the worker threads _run_transcribe and _run_translate               *)
(***************************************************************************)
MaxWorkers == 2       \* worker threads started in one run of the application
MaxFiles == 2         \* files in an input folder

\* A message put on msg_queue: who put it (0 is the main thread) and what
\* kind of status line it is.
Message(w, kind) == [worker |-> w, kind |-> kind]

\* queue_status, lines 123-124.
QueueStatus(q, w, kinds) == q \o [i \in 1..Len(kinds) |-> Message(w, kinds[i])]

\* The thread object created by threading.Thread(...).start(): which worker
\* function it runs, the input (a folder or one file), and its position.
Worker(kind, is_dir, nfiles) ==
    [kind |-> kind, is_dir |-> is_dir, nfiles |-> nfiles, pc |-> "start",
     started |-> 0, raised |-> FALSE, raised_at |-> 0]

\* An input chosen in the entry field: a folder with 0..MaxFiles matching
\* files, or a single file.
Inputs == [is_dir : {TRUE}, nfiles : 0..MaxFiles] \cup [is_dir : {FALSE}, nfiles : {1}]

\* start_transcribe, lines 244-279: the early returns for an empty or
\* missing path, the status lines, and the start of the thread.  Nothing
\* tests whether a worker is already running.
StartTranscribe ==
    /\ Len(workers) < MaxWorkers
    /\ \E path_ok \in BOOLEAN, input \in Inputs :
         IF ~path_ok
         THEN UNCHANGED guiVars
         ELSE /\ msg_queue' = QueueStatus(msg_queue, 0, <<"info", "info">>)
              /\ workers' = Append(workers, Worker("transcribe", input.is_dir, input.nfiles))
    /\ UNCHANGED <<loadVars, codecVars, moreVars, jobVars, procVars>>

\* start_advanced_transcribe, lines 517-547: the same worker function with
\* the advanced parameters as keyword arguments.
StartAdvancedTranscribe ==
    /\ Len(workers) < MaxWorkers
    /\ \E path_ok \in BOOLEAN, input \in Inputs :
         IF ~path_ok
         THEN UNCHANGED guiVars
         ELSE /\ msg_queue' = QueueStatus(msg_queue, 0, <<"info">>)
              /\ workers' = Append(workers, Worker("transcribe", input.is_dir, input.nfiles))
    /\ UNCHANGED <<loadVars, codecVars, moreVars, jobVars, procVars>>

\* start_translate, lines 307-332.
StartTranslate ==
    /\ Len(workers) < MaxWorkers
    /\ \E path_ok \in BOOLEAN, input \in Inputs :
         IF ~path_ok
         THEN UNCHANGED guiVars
         ELSE /\ msg_queue' = QueueStatus(msg_queue, 0, <<"info">>)
              /\ workers' = Append(workers, Worker("translate", input.is_dir, input.nfiles))
    /\ UNCHANGED <<loadVars, codecVars, moreVars, jobVars, procVars>>

\* The head of the worker functions, lines 286-291 and 336-345: a folder
\* without matching files ends the worker with one status line.
WorkerBegin(w) ==
    /\ workers[w].pc = "start"
    /\ IF workers[w].is_dir /\ workers[w].nfiles = 0
       THEN /\ msg_queue' = QueueStatus(msg_queue, w, <<"info">>)
            /\ workers' = [workers EXCEPT ![w].pc = "ended"]
       ELSE /\ msg_queue' = IF workers[w].is_dir
                            THEN QueueStatus(msg_queue, w, <<"info">>)
                            ELSE msg_queue
            /\ workers' = [workers EXCEPT ![w].pc = "next"]
    /\ UNCHANGED <<loadVars, codecVars, moreVars, jobVars, procVars>>

\* Lines 292-294, 297-298, 346-350: the status line of the file and the call
\* of core.transcribe_media or core.translate_file.
WorkerCall(w) ==
    /\ workers[w].pc = "next"
    /\ workers[w].started < workers[w].nfiles
    /\ msg_queue' = IF workers[w].kind = "transcribe" \/ workers[w].is_dir
                    THEN QueueStatus(msg_queue, w, <<"processing">>)
                    ELSE msg_queue
    /\ workers' = [workers EXCEPT ![w].pc = "in_core", ![w].started = @ + 1]
    /\ UNCHANGED <<loadVars, codecVars, moreVars, jobVars, procVars>>

\* The call returns: a list of paths, or None for a stopped transcription
\* (lines 295-296 and 299-300 report the created files).
WorkerReturn(w) ==
    /\ workers[w].pc = "in_core"
    /\ \E none \in BOOLEAN :
         msg_queue' = IF workers[w].kind = "transcribe" /\ ~none
                      THEN QueueStatus(msg_queue, w, <<"created">>)
                      ELSE msg_queue
    /\ workers' = [workers EXCEPT ![w].pc = "next"]
    /\ UNCHANGED <<loadVars, codecVars, moreVars, jobVars, procVars>>

\* The call raises.  The core was built with status_callback = queue_status
\* (line 74), and ModelManager.download_whisper_model and
\* download_translation_model (textifier_core.py lines 106-108, 135-137) put
\* their own "Error downloading ..." line through it before they re-raise;
\* every other raise of the core puts nothing.  The handler of lines 302-303
\* and 353-354 then puts the worker's error line and the function returns.
WorkerRaise(w) ==
    /\ workers[w].pc = "in_core"
    /\ \E in_download \in BOOLEAN :
         msg_queue' = QueueStatus(msg_queue, w,
                                  IF in_download THEN <<"error", "error">> ELSE <<"error">>)
    /\ workers' = [workers EXCEPT ![w].pc = "ended", ![w].raised = TRUE,
                                  ![w].raised_at = workers[w].started]
    /\ UNCHANGED <<loadVars, codecVars, moreVars, jobVars, procVars>>

\* Lines 301 and 352: all files done, the 'finished' line.
WorkerFinish(w) ==
    /\ workers[w].pc = "next"
    /\ workers[w].started = workers[w].nfiles
    /\ msg_queue' = QueueStatus(msg_queue, w, <<"finished">>)
    /\ workers' = [workers EXCEPT ![w].pc = "ended"]
    /\ UNCHANGED <<loadVars, codecVars, moreVars, jobVars, procVars>>

InitGui == InitLoadIdle /\ InitCodecIdle

NextGui ==
    \/ StartTranscribe
    \/ StartAdvancedTranscribe
    \/ StartTranslate
    \/ \E w \in 1..Len(workers) : WorkerBegin(w)
    \/ \E w \in 1..Len(workers) : WorkerCall(w)
    \/ \E w \in 1..Len(workers) : WorkerReturn(w)
    \/ \E w \in 1..Len(workers) : WorkerRaise(w)
    \/ \E w \in 1..Len(workers) : WorkerFinish(w)

SpecGui == InitGui /\ [][NextGui]_vars

(***************************************************************************)
(* Claims about the GUI jobs                                               *)
(***************************************************************************)
Running(w) == workers[w].pc # "ended"

UsingModel(w) == workers[w].pc = "in_core"

\* C13: while a worker thread started by one of the three handlers is still
\* running, no second worker is inside a call of the same TextifierCore.
C13_OneJobAtATime ==
    \A w1, w2 \in 1..Len(workers) : (w1 # w2 /\ Running(w1)) => ~UsingModel(w2)

\* The number of messages of a kind that worker w has put on the queue.
Count(w, kind) == Cardinality({i \in 1..Len(msg_queue) : msg_queue[i] = Message(w, kind)})

\* C17: a worker in which a file's processing raised has ended, has put
\* exactly one error line and no 'finished' line on the queue, and has
\* started no file after the one that raised.
C17_ErrorCaughtInWorker ==
    \A w \in 1..Len(workers) :
        workers[w].raised =>
            /\ workers[w].pc = "ended"
            /\ Count(w, "error") = 1
            /\ Count(w, "finished") = 0
            /\ workers[w].started = workers[w].raised_at

(***************************************************************************)
(* VTTProcessor.get_tutorial_format and get_html_format                    *)
(***************************************************************************)
MaxTextLen == 6       \* characters of full_text
MaxChunk == 3         \* largest chunk size asked for

Terminators == {".", "!", "?"}

\* The matches of (?<=[.!?])\s+ in text: a match starts at a whitespace
\* character that follows a terminator and takes the whole run of whitespace.
SplitStarts(text) ==
    {p \in 2..Len(text) : text[p] = SP /\ text[p - 1] \in Terminators}

SplitEnd(text, p) ==
    Min({q \in p..Len(text) : q = Len(text) \/ text[q + 1] # SP})

\* re.split(r'(?<=[.!?])\s+', text): the pieces between the matches, the
\* whole text when there is none.
SplitSentences(text) ==
    LET starts == SplitStarts(text)
        nth(k) == CHOOSE p \in starts : Cardinality({q \in starts : q < p}) = k - 1
    IN  [k \in 1..(Cardinality(starts) + 1) |->
            SubSeq(text,
                   IF k = 1 THEN 1 ELSE SplitEnd(text, nth(k - 1)) + 1,
                   IF k = Cardinality(starts) + 1 THEN Len(text) ELSE nth(k) - 1)]

\* A loop that closes a chunk only at a multiple of chunk_size.
IsChunkEnd_NoLast(i, n, total) == i % n = 0

\* is_chunk_end or is_last of lines 126-129 (line 152 in get_html_format),
\* for the i-th sentence counted from 1.
IsChunkEnd(i, n, total) == i % n = 0 \/ i = total

RECURSIVE ChunkLoop(_, _, _, _)
\* The for loop of lines 123-141 and 150-158 from the i-th sentence on, with
\* current_chunk as it stands: the text_block of every chunk it closes.
ChunkLoop(sentences, n, i, current_chunk) ==
    IF i > Len(sentences) THEN <<>>
    ELSE LET chunk == Append(current_chunk, sentences[i])
         IN  IF IsChunkEnd(i, n, Len(sentences))
             THEN <<Join(chunk, <<SP>>)>> \o ChunkLoop(sentences, n, i + 1, <<>>)
             ELSE ChunkLoop(sentences, n, i + 1, chunk)

\* Lines 131-140: the five lines appended for a text block.  The placeholder
\* line (with or without a time) and the rule of 40 dashes are one token each.
TutorialLines(text_block) ==
    <<text_block, <<>>, <<"[IMAGE PLACEHOLDER]">>, <<"----">>, <<>>>>

\* Lines 153-158: the five lines of a block in the HTML output.
HtmlLines(text_block) ==
    <<(<<"  <p>">> \o text_block \o <<"</p>">>), <<"  <!-- Insert Image Here -->">>,
      <<"  <figure class='tutorial-image'>">>, <<"    <img>">>, <<"  </figure>">>>>

\* get_tutorial_format(chunk_size), lines 113-143.
TutorialFormat(text, n) ==
    LET blocks == ChunkLoop(SplitSentences(text), n, 1, <<>>)
    IN  Join(Concat([k \in 1..Len(blocks) |-> TutorialLines(blocks[k])]), <<LF>>)

\* get_html_format(chunk_size), lines 145-164.
HtmlFormat(text, n) ==
    LET blocks == ChunkLoop(SplitSentences(text), n, 1, <<>>)
    IN  Join(<<(<<"<article class='tutorial'>">>)>>
                \o Concat([k \in 1..Len(blocks) |-> HtmlLines(blocks[k])])
                \o <<(<<"</article>">>)>>, <<LF>>)

GetTutorialFormat ==
    /\ output' = TutorialFormat(full_text, chunk_size)
    /\ UNCHANGED <<full_text, chunk_size, loadVars, codecVars, moreVars, jobVars, guiVars>>

GetHtmlFormat ==
    /\ output' = HtmlFormat(full_text, chunk_size)
    /\ UNCHANGED <<full_text, chunk_size, loadVars, codecVars, moreVars, jobVars, guiVars>>

\* The processor after parse(): full_text is the texts of the blocks joined
\* by spaces; the chunk size is the -n option.
InitTutorial ==
    /\ InitLoad
    /\ status_callback
    /\ InitCodecIdle
    /\ InitJobIdle
    /\ InitGuiIdle
    /\ InitMoreIdle
    /\ full_text \in SeqsUpTo({"a", ".", SP}, MaxTextLen)
    /\ chunk_size \in 1..MaxChunk
    /\ output = <<>>

NextTutorial ==
    \/ GetTutorialFormat
    \/ GetHtmlFormat

SpecTutorial == InitTutorial /\ [][NextTutorial]_vars

(***************************************************************************)
(* Claims about the tutorial formats                                       *)
(***************************************************************************)
\* The text blocks of an output: the first of the five lines of each block,
\* without the <p> markup in the HTML output.
EmittedBlocks ==
    LET lines == Split(output, <<LF>>)
        html == lines[1] = <<"<article class='tutorial'>">>
        count == Len(lines) \div 5
    IN  [k \in 1..count |->
            IF html
            THEN SubSeq(lines[5 * k - 3], 2, Len(lines[5 * k - 3]) - 1)
            ELSE lines[5 * k - 4]]

\* The sentences in their order, n to a block, the last block holding the
\* remaining 1..n.
BlocksOfN(sentences, n) ==
    [k \in 1..((Len(sentences) + n - 1) \div n) |->
        Join(SubSeq(sentences, (k - 1) * n + 1, Min({k * n, Len(sentences)})), <<SP>>)]

\* C18: the output of get_tutorial_format and get_html_format holds the
\* sentences of the transcript in their order, each once, in blocks of
\* exactly chunk_size sentences but for a last block of 1 to chunk_size.
C18_SentencesInBlocksOfN ==
    output # <<>> => EmittedBlocks = BlocksOfN(SplitSentences(full_text), chunk_size)

\* Three sentences in chunks of two: a full block and a last block of one.
C18_Witness ==
    /\ output # <<>>
    /\ chunk_size = 2
    /\ Len(SplitSentences(full_text)) = 3
    /\ Len(EmittedBlocks) = 2

(***************************************************************************)
(* Claims about the handle and the name it is held under                   *)
(***************************************************************************)
\* C26: between calls of load_model, a held handle was constructed for the
\* model that whisper_model_name names; in particular after a call
\* load_model(m) that returned normally the held handle is one for m.
C26_HandleBuiltForNamedModel ==
    (pc = "idle" /\ whisper_model # NoModel) =>
        /\ whisper_model.model = whisper_model_name
        /\ outcome \in {"ready", "early_return"} => whisper_model.model = arg_model

(***************************************************************************)
(* A session of the application: the transcription handlers of the main    *)
(* thread and the workers' path through transcribe_media down to the use   *)
(* of the handle, on the one TextifierCore of the application              *)
(***************************************************************************)
MaxJobs == 2          \* transcription jobs started in a session

\* The models offered by the combobox of the Batch tab, cut to two.
GuiModels == {"large", "base"}

\* The variables of a running load_model call that a session leaves alone.
callVars == <<status_callback, pc, arg_model, arg_device, arg_compute_type, device,
              resolved, cuda_types, idx, trace, outcome>>

otherVars == <<callVars, codecVars, jobVars, guiVars, procVars, logVars, editorVars, outVars>>

\* The worker thread of a job: where it stands and the model_name that
\* load_whisper_model read for it.
Thread(at) == [at |-> at, name |-> "none"]

Alive(t) == t.at \notin {"done", "failed", "none_used"}

SomeAlive == \E w \in 1..Len(threads) : Alive(threads[w])

\* start_transcribe, lines 255-279: a model other than the core's is a
\* switch (name changed, handle dropped); then the worker is started.
SessStartTranscribe ==
    /\ Len(threads) < MaxJobs
    /\ \E model_name \in GuiModels :
         IF core_model_name # model_name
         THEN /\ core_model_name' = model_name
              /\ whisper_model' = NoModel
              /\ switches' = switches + 1
              /\ resets' = resets + 1
         ELSE UNCHANGED <<core_model_name, whisper_model, switches, resets>>
    /\ threads' = Append(threads, Thread("check"))
    /\ overlapped' = (overlapped \/ SomeAlive)
    /\ UNCHANGED <<whisper_model_name, last_device, last_compute_type, gui_device,
                   gui_compute_type, builds, otherVars>>

\* The precision start_advanced_transcribe derives, line 526.
AdvancedComputeType(dev, fp16) == IF fp16 /\ dev # "cpu" THEN "float16" ELSE "int8"

\* start_advanced_transcribe, lines 525-547: when the model, the device or
\* the precision differs from what the core carries, the handle is dropped
\* and the device and precision are recorded on the core; the name is not.
SessStartAdvanced ==
    /\ Len(threads) < MaxJobs
    /\ \E model_name \in GuiModels, dev \in Devices, fp16 \in BOOLEAN :
         IF \/ core_model_name # model_name
            \/ gui_device # dev
            \/ gui_compute_type # AdvancedComputeType(dev, fp16)
         THEN /\ whisper_model' = NoModel
              /\ gui_device' = dev
              /\ gui_compute_type' = AdvancedComputeType(dev, fp16)
              /\ resets' = resets + 1
         ELSE UNCHANGED <<whisper_model, gui_device, gui_compute_type, resets>>
    /\ threads' = Append(threads, Thread("check"))
    /\ overlapped' = (overlapped \/ SomeAlive)
    /\ UNCHANGED <<whisper_model_name, last_device, last_compute_type, core_model_name,
                   switches, builds, otherVars>>

\* transcribe_media line 532-533 and load_model lines 175-188 as
\* load_whisper_model() calls it, with the core's model name, device "auto"
\* and compute_type "default": a held handle skips the load; else a missing
\* model is downloaded (which may raise) and the device is detected.
LoadCheck(w) ==
    /\ threads[w].at = "check"
    /\ IF whisper_model # NoModel
       THEN threads' = [threads EXCEPT ![w].at = "use"]
       ELSE \E downloaded \in BOOLEAN, cuda_available \in BOOLEAN :
              threads' = [threads EXCEPT
                            ![w].at = IF ~downloaded THEN "failed"
                                      ELSE IF cuda_available THEN "load_cuda"
                                      ELSE "load_cpu",
                            ![w].name = core_model_name]
    /\ UNCHANGED <<whisper_model, whisper_model_name, last_device, last_compute_type,
                   core_model_name, gui_device, gui_compute_type, builds, resets,
                   switches, overlapped, otherVars>>

\* Lines 197-212 with compute_type "default": the CUDA types are tried in
\* their order until one construction succeeds, or all fail.
LoadCuda(w) ==
    /\ threads[w].at = "load_cuda"
    /\ \E k \in 0..Len(CUDA_TYPES) :
         IF k = 0
         THEN UNCHANGED <<whisper_model, last_device, last_compute_type, builds>>
         ELSE /\ whisper_model' = WhisperModel(threads[w].name, "cuda", CUDA_TYPES[k])
              /\ last_device' = "cuda"
              /\ last_compute_type' = CUDA_TYPES[k]
              /\ builds' = builds + 1
    /\ threads' = [threads EXCEPT ![w].at = "load_cpu"]
    /\ UNCHANGED <<whisper_model_name, core_model_name, gui_device, gui_compute_type,
                   resets, switches, overlapped, otherVars>>

\* Lines 215-226: with no handle held, the CPU types are tried in turn.
LoadCpu(w) ==
    /\ threads[w].at = "load_cpu"
    /\ IF whisper_model # NoModel
       THEN UNCHANGED <<whisper_model, last_device, last_compute_type, builds>>
       ELSE \E k \in 0..Len(CPU_TYPES) :
              IF k = 0
              THEN UNCHANGED <<whisper_model, last_device, last_compute_type, builds>>
              ELSE /\ whisper_model' = WhisperModel(threads[w].name, "cpu", CPU_TYPES[k])
                   /\ last_device' = "cpu"
                   /\ last_compute_type' = CPU_TYPES[k]
                   /\ builds' = builds + 1
    /\ threads' = [threads EXCEPT ![w].at = "load_final"]
    /\ UNCHANGED <<whisper_model_name, core_model_name, gui_device, gui_compute_type,
                   resets, switches, overlapped, otherVars>>

\* Lines 228-232: RuntimeError with no handle, else the name is recorded.
LoadFinal(w) ==
    /\ threads[w].at = "load_final"
    /\ IF whisper_model = NoModel
       THEN /\ threads' = [threads EXCEPT ![w].at = "failed"]
            /\ UNCHANGED whisper_model_name
       ELSE /\ threads' = [threads EXCEPT ![w].at = "use"]
            /\ whisper_model_name' = threads[w].name
    /\ UNCHANGED <<whisper_model, last_device, last_compute_type, core_model_name,
                   gui_device, gui_compute_type, builds, resets, switches, overlapped,
                   otherVars>>

\* A job that gives the handle up once it has used it.
UseHandle_Releases(w) ==
    /\ threads[w].at = "use"
    /\ threads' = [threads EXCEPT ![w].at = IF whisper_model = NoModel
                                            THEN "none_used" ELSE "done"]
    /\ whisper_model' = NoModel
    /\ UNCHANGED <<whisper_model_name, last_device, last_compute_type,
                   core_model_name, gui_device, gui_compute_type, builds, resets,
                   switches, overlapped, otherVars>>

\* Transcriber.transcribe, line 238: self.whisper_model.transcribe(...) on
\* the handle as it is now; on None the attribute access raises.
UseHandle(w) ==
    /\ threads[w].at = "use"
    /\ threads' = [threads EXCEPT ![w].at = IF whisper_model = NoModel
                                            THEN "none_used" ELSE "done"]
    /\ UNCHANGED <<whisper_model, whisper_model_name, last_device, last_compute_type,
                   core_model_name, gui_device, gui_compute_type, builds, resets,
                   switches, overlapped, otherVars>>

InitSession == InitLoadIdle /\ InitCodecIdle

NextSession ==
    \/ SessStartTranscribe
    \/ SessStartAdvanced
    \/ \E w \in 1..Len(threads) : LoadCheck(w)
    \/ \E w \in 1..Len(threads) : LoadCuda(w)
    \/ \E w \in 1..Len(threads) : LoadCpu(w)
    \/ \E w \in 1..Len(threads) : LoadFinal(w)
    \/ \E w \in 1..Len(threads) : UseHandle(w)

SpecSession == InitSession /\ [][NextSession]_vars

(***************************************************************************)
(* Claims about the handle over a session                                  *)
(***************************************************************************)
JobsDone == Cardinality({w \in 1..Len(threads) : threads[w].at = "done"})

C27_NeverUsesNone ==
    \A w \in 1..Len(threads) : threads[w].at # "none_used"

\* C30: once start_advanced_transcribe has recorded a device and a
\* precision, a held handle was constructed with that device (any device
\* when "auto" was selected) and that precision.
C30_RecordedEqualsConstructed ==
    (gui_device # "none" /\ whisper_model # NoModel) =>
        /\ gui_device \in {"auto", whisper_model.device}
        /\ whisper_model.ctype = gui_compute_type

(***************************************************************************)
(* Translator.translate (textifier_core.py lines 273-305)                  *)
(***************************************************************************)
\* The lang_codes table of lines 276-287, cut to two languages, and the
\* codes the tokenizer knows (lang_code_to_id); gl_ES is an mBART-50 code
\* that the table does not list.
ShortLangs == {"en", "fr"}
LangCode(lang) == IF lang = "en" THEN "en_XX" ELSE "fr_XX"
TokenizerCodes == {"en_XX", "fr_XX", "gl_ES"}

\* What a caller may pass as a language: a short name, an mBART code, or
\* something that is neither.
LangArgs == ShortLangs \cup TokenizerCodes \cup {"zz"}

\* lang_codes.get(lang, lang), lines 290-291.
CodeOrAsIs(lang) == IF lang \in ShortLangs THEN LangCode(lang) ELSE lang

\* translate(text, source_lang, target_lang), lines 273-274 with load_model
\* (lines 262-271): a model not held is loaded, after a download when it is
\* not on disk, and the download may raise.
CallTranslate ==
    /\ jpc = "idle"
    /\ \E source \in LangArgs, target \in LangArgs, text \in {"hello", ""},
          held \in BOOLEAN, on_disk \in BOOLEAN, downloads \in BOOLEAN :
         /\ job' = [kind |-> "translate_text", source |-> source, target |-> target,
                    text |-> text]
         /\ IF held
            THEN /\ jpc' = "tr_check"
                 /\ UNCHANGED <<events, result>>
            ELSE IF on_disk
            THEN /\ jpc' = "tr_check"
                 /\ events' = Append(events, Event("load_translation", {}))
                 /\ result' = result
            ELSE IF downloads
            THEN /\ jpc' = "tr_check"
                 /\ events' = events \o <<Event("download_translation", {}),
                                          Event("load_translation", {})>>
                 /\ result' = result
            ELSE /\ jpc' = "done"
                 /\ events' = Append(events, Event("download_translation", {}))
                 /\ result' = Raised("Exception")
    /\ UNCHANGED <<written, stop_requested, emitted, appended, stop_at,
                   loadVars, codecVars, guiVars, procVars, moreVars>>

\* Lines 290-296: the codes, and ValueError for a target code the tokenizer
\* does not know; then tokenizer.src_lang = src_code and the tokenizing.
TranslateCheck ==
    /\ jpc = "tr_check"
    /\ IF CodeOrAsIs(job.target) \notin TokenizerCodes
       THEN /\ result' = Raised("ValueError")
            /\ jpc' = "done"
       ELSE /\ result' = result
            /\ jpc' = "tr_generate"
    /\ UNCHANGED <<job, events, written, stop_requested, emitted, appended, stop_at,
                   loadVars, codecVars, guiVars, procVars, moreVars>>

\* Lines 300-305: model.generate with forced_bos_token_id =
\* lang_code_to_id[lang_codes[target_lang]]; the subscript lang_codes[...]
\* raises KeyError for a target that is not a key of the table.
TranslateGenerate ==
    /\ jpc = "tr_generate"
    /\ IF job.target \notin ShortLangs
       THEN /\ result' = Raised("KeyError")
            /\ events' = events
       ELSE /\ events' = Append(events, Event("generate", {CodeOrAsIs(job.source), LangCode(job.target)}))
            /\ result' = Returned(<<job.text>>)
    /\ jpc' = "done"
    /\ UNCHANGED <<job, written, stop_requested, emitted, appended, stop_at,
                   loadVars, codecVars, guiVars, procVars, moreVars>>

InitTranslate == InitLoadIdle /\ InitCodecIdle

NextTranslate ==
    \/ CallTranslate
    \/ TranslateCheck
    \/ TranslateGenerate

SpecTranslate == InitTranslate /\ [][NextTranslate]_vars

\* C22: a call of translate whose source or target is given as an mBART
\* code that the tokenizer knows (the other one a short name or such a code
\* too) does not fail once the model is there: it returns, and the codes
\* were handed to the model as given.
C22_CodesAcceptedAsIs ==
    (/\ jpc = "done"
     /\ job.kind = "translate_text"
     /\ job.source \in ShortLangs \cup TokenizerCodes
     /\ job.target \in ShortLangs \cup TokenizerCodes
     /\ (job.source \in TokenizerCodes \/ job.target \in TokenizerCodes)
     /\ result # Raised("Exception"))
    => /\ result.kind = "returned"
       /\ events[Len(events)] = Event("generate", {CodeOrAsIs(job.source), CodeOrAsIs(job.target)})

(***************************************************************************)
(* The subtitle editor: load_vtt_in_editor, _get_next_iteration_path and   *)
(* editor_save_file (gui_main.py lines 581-648)                            *)
(***************************************************************************)
MaxSaves == 3         \* saves in one run of the editor

\* A file stem is a sequence of tokens: a word, "_edit", decimal digits.
DecimalDigits == <<"0", "1", "2", "3", "4", "5", "6", "7", "8", "9">>
IsDecimal(c) == \E d \in 1..10 : DecimalDigits[d] = c

\* f"{num:02d}"
TwoDigits(num) ==
    IF num < 10 THEN <<"0", DecimalDigits[num + 1]>>
    ELSE <<DecimalDigits[(num \div 10) + 1], DecimalDigits[(num % 10) + 1]>>

\* re.search(r'_edit\d+$', stem): the start of the match, 0 without one.
EditMatch(stem) ==
    LET at == {i \in 1..Len(stem) - 1 :
                  /\ stem[i] = "_edit"
                  /\ \A j \in (i + 1)..Len(stem) : IsDecimal(stem[j])}
    IN  IF at = {} THEN 0 ELSE Min(at)

\* Lines 584-588: the stem without a trailing _editNN.
TrueBase(stem) ==
    IF EditMatch(stem) = 0 THEN stem ELSE SubSeq(stem, 1, EditMatch(stem) - 1)

\* Line 592: f"{stem}_edit{num:02d}.vtt" (all files here are .vtt files of
\* one folder, so a file is named by its stem).
IterationName(base, num) == base \o <<"_edit">> \o TwoDigits(num)

\* The names of the files on disk.
Names(d) == {f.name : f \in d}

\* A search that hands out _edit01 without looking at the disk.
NextIteration_NoLook(d, base, num) == num

RECURSIVE NextIteration(_, _, _)
\* Lines 590-595: count up from num until the name is free.
NextIteration(d, base, num) ==
    IF IterationName(base, num) \in Names(d)
    THEN NextIteration(d, base, num + 1)
    ELSE num

\* The stems a folder may hold before the editor runs.
OriginalStems ==
    {<<"talk">>, <<"talk", "_edit">>, <<"talk", "_edit", "1">>,
     <<"talk", "_edit", "0", "1">>, <<"talk", "_edit", "0", "2">>}

\* A file: its stem and the version of its content (0: as found, k: as
\* written by the k-th save).
File(name, content) == [name |-> name, content |-> content]

\* load_vtt_in_editor, lines 622-629, on a .vtt file chosen in
\* editor_open_file: the cues are loaded and the path is kept.
LoadVttInEditor ==
    /\ \E f \in disk : editor_file' = f.name
    /\ UNCHANGED <<disk, saves, loadVars, codecVars, jobVars, guiVars, procVars,
                   sessVars, logVars, outVars>>

\* What a save leaves behind: the path, the file that was loaded, the number
\* the search ended with, and the disk as it was before.
Save(path, loaded, num, before) ==
    [path |-> path, loaded |-> loaded, num |-> num, before |-> before]

\* save_vtt_from_data through open(path, 'w'): the file is created or
\* replaced.
WriteFile(d, path, content) == {f \in d : f.name # path} \cup {File(path, content)}

\* editor_save_file, lines 631-648: with no file loaded the user names the
\* path in a dialog (or cancels); else the next iteration path is taken.
\* The cues are written and the written path becomes the current one.
EditorSaveFile ==
    /\ Len(saves) < MaxSaves
    /\ IF editor_file = <<>>
       THEN \E chosen \in OriginalStems \cup {<<"new">>, <<>>} :
              IF chosen = <<>>
              THEN UNCHANGED <<disk, editor_file, saves>>
              ELSE /\ disk' = WriteFile(disk, chosen, Len(saves) + 1)
                   /\ saves' = Append(saves, Save(chosen, <<>>, 0, disk))
                   /\ editor_file' = chosen
       ELSE LET base == TrueBase(editor_file)
                num == NextIteration(disk, base, 1)
                path == IterationName(base, num)
            IN  /\ disk' = WriteFile(disk, path, Len(saves) + 1)
                /\ saves' = Append(saves, Save(path, editor_file, num, disk))
                /\ editor_file' = path
    /\ UNCHANGED <<loadVars, codecVars, jobVars, guiVars, procVars, sessVars, logVars,
                   outVars>>

\* The editor tab as set up (line 567-568: no current path), in a folder
\* holding any of the stems.
InitEditor ==
    /\ InitLoad
    /\ status_callback
    /\ InitCodecIdle
    /\ InitJobIdle
    /\ InitGuiIdle
    /\ InitProcIdle
    /\ InitSessIdle
    /\ InitLogIdle
    /\ InitOutIdle
    /\ disk \in {{File(n, 0) : n \in S} : S \in SUBSET OriginalStems}
    /\ editor_file = <<>>
    /\ saves = <<>>

NextEditor ==
    \/ LoadVttInEditor
    \/ EditorSaveFile

SpecEditor == InitEditor /\ [][NextEditor]_vars

(***************************************************************************)
(* Claims about the editor                                                 *)
(***************************************************************************)
\* The stem without a trailing "_edit" followed by digits, found from the
\* end: the digits are dropped, then "_edit" if there was a digit.
BaseOf(stem) ==
    LET digits == Cardinality({k \in 1..Len(stem) :
                      \A j \in k..Len(stem) : IsDecimal(stem[j])})
        rest == Len(stem) - digits
    IN  IF digits > 0 /\ rest > 0 /\ stem[rest] = "_edit"
        THEN SubSeq(stem, 1, rest - 1)
        ELSE stem

LoadedSaves == {i \in 1..Len(saves) : saves[i].loaded # <<>>}

\* C23: every save made with a file loaded wrote <base>_editNN, base being
\* the loaded stem without a trailing _editNN and NN the smallest number
\* from 1 whose name was free; the name was not on disk before (so neither
\* the loaded file nor any other was overwritten), every file that was there
\* is still there with its content, and later saves of the same base carry
\* larger numbers.
C23_SavesNeverOverwrite ==
    \A i \in LoadedSaves :
        LET s == saves[i]
            base == BaseOf(s.loaded)
        IN  /\ s.path = IterationName(base, s.num)
            /\ s.num >= 1
            /\ s.path \notin Names(s.before)
            /\ s.path # s.loaded
            /\ \A n \in 1..(s.num - 1) : IterationName(base, n) \in Names(s.before)
            /\ s.before \subseteq disk
            /\ \A j \in LoadedSaves :
                 (i < j /\ BaseOf(saves[j].loaded) = base) => s.num < saves[j].num

\* talk_edit01.vtt was loaded while talk_edit02.vtt existed, and two saves
\* were made: talk_edit03 and then talk_edit04.
C23_Witness ==
    /\ Len(saves) = 2
    /\ saves[1].loaded = <<"talk", "_edit", "0", "1">>
    /\ saves[1].num = 3
    /\ saves[2].num = 4

(***************************************************************************)
(* VTTProcessor.parse on WebVTT files made of a header and cues            *)
(***************************************************************************)
\* The text lines of a cue: none, plain lines, a line with a markup tag, a
\* line that is a number.
MarkupLine == <<"<", "b", ">", "a">>
CueTextLines ==
    {<<>>, <<(<<"a">>)>>, <<(<<"a">>), (<<"b">>)>>, <<MarkupLine>>, <<(<<"1">>)>>,
     <<(<<"a">>), (<<"2">>)>>}

\* The lines before the first cue: WEBVTT alone, or followed by a metadata
\* line as captioning services write it.
VttHeaders == {<<(<<WEBVTT>>)>>, <<(<<WEBVTT>>), (<<"Kind:", SP, "captions">>)>>}

\* The cues of a file: cue i runs from second i to second i+1 and has its
\* text lines (joined by '\n' in the text field).
ProcessorCues ==
    UNION {{[i \in 1..n |-> Cue(VttTime(i), VttTime(i + 1), Join(t[i], <<LF>>))] :
               t \in [1..n -> CueTextLines]} : n \in 0..MaxCues}

\* The lines of the file: the header, a blank line, and for every cue its
\* number (when the file numbers its cues), its timestamp line, its text
\* lines and a blank line.
VttFileLines(header, cs, numbered) ==
    header \o <<(<<>>)>> \o
    Concat([i \in 1..Len(cs) |->
              (IF numbered THEN <<Str(i)>> ELSE <<>>)
              \o <<TimeLine(cs[i].start, cs[i].end)>>
              \o (IF cs[i].text = <<>> THEN <<>> ELSE Split(cs[i].text, <<LF>>))
              \o <<(<<>>)>>])

\* A WebVTT file on disk about to be read by VTTProcessor.
InitProcessor ==
    /\ InitLoadIdle
    /\ op = "given"
    /\ ext = "vtt"
    /\ windows \in BOOLEAN
    /\ data \in ProcessorCues
    /\ file \in {WriteText(FileText(VttFileLines(h, data, numbered)), windows) :
                    h \in VttHeaders, numbered \in BOOLEAN}
    /\ cues = <<>>
    /\ logged = 0

NextProcessor == ProcessorParse

SpecProcessor == InitProcessor /\ [][NextProcessor]_vars

\* A text line without its markup tags.
Plain(line) == SelectSeq(line, LAMBDA c : c \notin {"<", "b", ">"})

\* The block of a cue: its timestamps and its text lines, tags removed,
\* joined by spaces.
BlockOf(c) ==
    LET ls == Split(c.text, <<LF>>)
    IN  Cue(c.start, c.end, Join([k \in 1..Len(ls) |-> Plain(ls[k])], <<SP>>))

\* C25: parse yields one block for every cue of the file that has text, in
\* order, with that cue's timestamps and exactly its own text lines.
C25_BlockPerCueWithOwnText ==
    op = "processor_parse" =>
        cues = [k \in 1..Len(SelectSeq(data, LAMBDA c : c.text # <<>>)) |->
                   BlockOf(SelectSeq(data, LAMBDA c : c.text # <<>>)[k])]

(***************************************************************************)
(* TextifierCore.translate_file on the content of the files                *)
(***************************************************************************)
\* The texts of the cues of an input file: empty, one line, two lines.
InputTexts == {<<>>, <<"a">>, <<"a", LF, "b">>}

\* The entries of an input file: cues in the notation of the format, or
\* lines for TXT.
InputEntries(e) ==
    IF e = "txt"
    THEN SeqsUpTo({<<"a">>, <<"b">>}, MaxCues)
    ELSE UNION {{[i \in 1..n |-> Cue(TimeIn(e, i), TimeIn(e, i + 1), t[i])] :
                    t \in [1..n -> InputTexts]} : n \in 0..MaxCues}

\* What the serializer of a format hands to the file.
Serialized(e, d, win) ==
    CASE e = "vtt" -> WriteText(VttText(d), win)
      [] e = "srt" -> WriteText(SrtText(d), win)
      [] e = "csv" -> CsvText(d)
      [] e = "txt" -> WriteText(TxtText(d), win)

\* Lines 577-588: the parser of the format.
ParsedData(e, f) ==
    CASE e = "vtt" -> VttCues(ReadText(f))
      [] e = "srt" -> SrtCues(ReadText(f))
      [] e = "csv" -> CsvCues(ReadText(f))
      [] e = "txt" -> TxtLines(ReadText(f))

\* What Translator.translate may return for a text: a string of the model's
\* choosing, possibly the empty one.
Translations == {<<"A">>, <<"B">>, <<>>}

\* translate_file(input_path, ...), lines 570-590: the input is parsed into
\* the list of entries.
TranslateFileParse ==
    /\ jpc = "idle"
    /\ job' = [kind |-> "translate_file", done |-> 0]
    /\ cues' = ParsedData(ext, file)
    /\ jpc' = "translate_file_loop"
    /\ UNCHANGED <<op, ext, windows, data, file, logged, events, written, result,
                   stop_requested, emitted, appended, stop_at, out_file,
                   loadVars, guiVars, procVars, sessVars, logVars, editorVars>>

\* One pass of the loops of lines 592-602: the translation replaces the text
\* of the entry in the list, or Translator.translate raises and the
\* exception leaves translate_file.
TranslateFileEntry_Saving ==
    /\ jpc = "translate_file_loop"
    /\ job.done < Len(cues)
    /\ \/ /\ result' = Raised("RuntimeError")
          /\ jpc' = "done"
          /\ UNCHANGED <<cues, job, out_file>>
       \/ \E t \in Translations :
            /\ cues' = [cues EXCEPT ![job.done + 1] =
                          IF ext = "txt" THEN t ELSE [@ EXCEPT !.text = t]]
            /\ job' = [job EXCEPT !.done = @ + 1]
            /\ out_file' = Serialized(ext, cues', windows)
            /\ UNCHANGED <<result, jpc>>
    /\ UNCHANGED <<op, ext, windows, data, file, logged, events, written,
                   stop_requested, emitted, appended, stop_at,
                   loadVars, guiVars, procVars, sessVars, logVars, editorVars>>

TranslateFileEntry ==
    /\ jpc = "translate_file_loop"
    /\ job.done < Len(cues)
    /\ \/ /\ result' = Raised("RuntimeError")
          /\ jpc' = "done"
          /\ UNCHANGED <<cues, job>>
       \/ \E t \in Translations :
            /\ cues' = [cues EXCEPT ![job.done + 1] =
                          IF ext = "txt" THEN t ELSE [@ EXCEPT !.text = t]]
            /\ job' = [job EXCEPT !.done = @ + 1]
            /\ UNCHANGED <<result, jpc>>
    /\ UNCHANGED <<op, ext, windows, data, file, logged, events, written,
                   stop_requested, emitted, appended, stop_at, out_file,
                   loadVars, guiVars, procVars, sessVars, logVars, editorVars>>

\* Lines 604-620: the list is saved in the format of the input and the path
\* of the output returned.
TranslateFileSave ==
    /\ jpc = "translate_file_loop"
    /\ job.done = Len(cues)
    /\ out_file' = Serialized(ext, cues, windows)
    /\ result' = Returned(<<"output_path">>)
    /\ jpc' = "done"
    /\ UNCHANGED <<op, ext, windows, data, file, cues, logged, job, events, written,
                   stop_requested, emitted, appended, stop_at,
                   loadVars, guiVars, procVars, sessVars, logVars, editorVars>>

\* An input file as the serializers of the program write it, and no output
\* file yet.
InitTranslateFile ==
    /\ InitLoad /\ status_callback
    /\ InitJobIdle /\ InitGuiIdle /\ InitProcIdle
    /\ InitSessIdle /\ InitLogIdle /\ InitEditorIdle /\ InitOutIdle
    /\ op = "saved"
    /\ ext \in AllFormats
    /\ windows \in (IF ext = "csv" THEN {FALSE} ELSE BOOLEAN)
    /\ data \in InputEntries(ext)
    /\ file = Serialized(ext, data, windows)
    /\ cues = <<>>
    /\ logged = 0

NextTranslateFile ==
    \/ TranslateFileParse
    \/ TranslateFileEntry
    \/ TranslateFileSave

SpecTranslateFile == InitTranslateFile /\ [][NextTranslateFile]_vars

TranslateFileReturned == jpc = "done" /\ result.kind = "returned"

\* C24: the output file is the input's format written from entries that are
\* as many as the cues of the input and have, in order, the input's start and
\* end strings.
C24_OnlyTextChanges ==
    (TranslateFileReturned /\ ext # "txt") =>
        /\ out_file = Serialized(ext, cues, windows)
        /\ Len(cues) = Len(data)
        /\ \A i \in 1..Len(cues) :
             cues[i].start = data[i].start /\ cues[i].end = data[i].end

\* C28: an output file exists only when every entry was translated and
\* translate_file returned; after a raise there is none; the input file is
\* as it was given.
C28_OutputOnlyAfterAllTranslated ==
    /\ file = Serialized(ext, data, windows)
    /\ result.kind = "RuntimeError" => out_file = NoFile
    /\ out_file # NoFile =>
         /\ TranslateFileReturned
         /\ job.done = Len(cues)
         /\ out_file = Serialized(ext, cues, windows)

\* An entry raised after another one was translated.
C28_Witness ==
    /\ result.kind = "RuntimeError"
    /\ job.done >= 1
    /\ job.done < Len(cues)
    /\ out_file = NoFile

(***************************************************************************)
(* The status queue and the activity log (gui_main.py 96-100, 123-142)     *)
(***************************************************************************)
MaxMessages == 3      \* status messages put during a run

\* The threads that put status messages (0 is the main thread) and the
\* kinds of their messages.
Senders == {0, 1}
StatusKinds == {"info", "finished"}

queueVars == <<loadVars, codecVars, jobVars, procVars, sessVars, editorVars, outVars, workers>>

\* A call of queue_status(message) on any thread: msg_queue.put(message).
CallQueueStatus ==
    /\ Len(enqueued) < MaxMessages
    /\ \E w \in Senders, kind \in StatusKinds :
         /\ msg_queue' = QueueStatus(msg_queue, w, <<kind>>)
         /\ enqueued' = Append(enqueued, Message(w, kind))
    /\ UNCHANGED <<log, timers, pq_pc, queueVars>>

\* The main loop runs a due self.after(100, self.process_queue) callback;
\* callbacks run one at a time on the GUI thread.
ProcessQueue ==
    /\ pq_pc = "idle"
    /\ timers > 0
    /\ timers' = timers - 1
    /\ pq_pc' = "draining"
    /\ UNCHANGED <<enqueued, log, msg_queue, queueVars>>

\* Lines 128-130: msg = self.msg_queue.get_nowait(); self.log_message(msg),
\* which inserts the message into txt_log.
GetNowait_Dropping ==
    /\ pq_pc = "draining"
    /\ msg_queue # <<>>
    /\ log' = log
    /\ msg_queue' = Tail(msg_queue)
    /\ UNCHANGED <<enqueued, timers, pq_pc, queueVars>>

GetNowait ==
    /\ pq_pc = "draining"
    /\ msg_queue # <<>>
    /\ log' = Append(log, Head(msg_queue))
    /\ msg_queue' = Tail(msg_queue)
    /\ UNCHANGED <<enqueued, timers, pq_pc, queueVars>>

\* Lines 131-134: queue.Empty ends the loop and the finally clause schedules
\* the next run.
QueueEmpty ==
    /\ pq_pc = "draining"
    /\ msg_queue = <<>>
    /\ timers' = timers + 1
    /\ pq_pc' = "idle"
    /\ UNCHANGED <<enqueued, log, msg_queue, queueVars>>

\* After TextifierApp.__init__: an empty queue and the callbacks scheduled at
\* lines 97 and 100.
InitQueue == InitLoadIdle /\ InitCodecIdle

NextQueue ==
    \/ CallQueueStatus
    \/ ProcessQueue
    \/ GetNowait
    \/ QueueEmpty

SpecQueue == InitQueue /\ [][NextQueue]_vars

\* While mainloop runs, Tk fires every due callback and a callback that was
\* started runs on to its end.
SpecQueueFair ==
    /\ SpecQueue
    /\ WF_vars(ProcessQueue)
    /\ WF_vars(GetNowait)
    /\ WF_vars(QueueEmpty)

\* C29: the log followed by the queue is the sequence of the messages put
\* (each message once, in order); every message put is eventually in the log
\* at its place; process_queue ends only on an empty queue and then
\* schedules its next run.
C29_LoggedOnceInOrder ==
    /\ [](log \o msg_queue = enqueued)
    /\ \A n \in 1..MaxMessages :
         (Len(enqueued) >= n) ~> (Len(log) >= n /\ log[n] = enqueued[n])
    /\ [][(pq_pc = "draining" /\ pq_pc' = "idle") =>
            (msg_queue = <<>> /\ timers' = timers + 1)]_vars
    /\ [](timers >= 1)

\* All messages were put, some while process_queue was draining, and all are
\* in the log.
C29_Witness ==
    /\ Len(enqueued) = MaxMessages
    /\ log = enqueued
    /\ msg_queue = <<>>
    /\ pq_pc = "draining"

====
